---- MODULE Spec2Model ----
(***************************************************************************)
(* Tone queue of libcw (src/src/libcw/libcw_tq.c): a circular list of      *)
(* tones with a pair of indexes, tail (enqueue) and head (dequeue).        *)
(*                                                                         *)
(* Every region of the code that runs between pthread_mutex_lock() and     *)
(* pthread_mutex_unlock() is one atomic action.  The call of the low water *)
(* callback, which cw_tq_dequeue_internal() makes after it has released    *)
(* the mutex, is a separate step of the consumer thread.                   *)
(***************************************************************************)
EXTENDS Integers, Sequences, FiniteSets, TLC

(* ------------------------------ bounds --------------------------------- *)

\* Largest capacity given to cw_tq_set_capacity_internal().
MaxCapacity == 2

\* Largest number of tones stored during one behaviour of SpecFifo.
MaxEnqueued == 3

\* SpecFifo counts the returns of one tone up to this number.
MaxRepeats == 2

(* ----------------------------- constants ------------------------------- *)

CW_FREQUENCY_MIN == 0
CW_FREQUENCY_MAX == 4000

CW_SUCCESS == "CW_SUCCESS"
CW_FAILURE == "CW_FAILURE"

CW_TQ_IDLE == "CW_TQ_IDLE"
CW_TQ_BUSY == "CW_TQ_BUSY"

CW_TQ_DEQUEUED        == "CW_TQ_DEQUEUED"
CW_TQ_NDEQUEUED_EMPTY == "CW_TQ_NDEQUEUED_EMPTY"
CW_TQ_NDEQUEUED_IDLE  == "CW_TQ_NDEQUEUED_IDLE"

CW_KEY_STATE_OPEN   == "CW_KEY_STATE_OPEN"
CW_KEY_STATE_CLOSED == "CW_KEY_STATE_CLOSED"

NULL == "NULL"

\* errno values; ENONE stands for "errno not set by the call".
ENONE  == "0"
EINVAL == "EINVAL"
EAGAIN == "EAGAIN"
EDEADLK == "EDEADLK"
EBUSY == "EBUSY"

(* ------------------------------- tones --------------------------------- *)

\* cw_tone_t: the fields the tone queue looks at.
Tone(f, l, forever, first) ==
    [frequency |-> f, len |-> l, is_forever |-> forever, is_first |-> first]

\* Tones offered to enqueue.  ValidTones are stored: a mark, a forever
\* mark, the first mark of a character and a space.  EmptyTones have
\* len = 0.  InvalidTones have a frequency one step outside
\* [CW_FREQUENCY_MIN, CW_FREQUENCY_MAX] or a negative len.
ValidTones == {Tone(CW_FREQUENCY_MAX, 1, FALSE, FALSE),
               Tone(CW_FREQUENCY_MAX, 1, TRUE, FALSE),
               Tone(CW_FREQUENCY_MAX, 1, FALSE, TRUE),
               Tone(CW_FREQUENCY_MIN, 1, FALSE, FALSE)}

EmptyTones == {Tone(CW_FREQUENCY_MAX, 0, FALSE, fi) : fi \in BOOLEAN}

InvalidTones == {Tone(CW_FREQUENCY_MIN - 1, 1, FALSE, FALSE),
                 Tone(CW_FREQUENCY_MAX + 1, 1, FALSE, FALSE),
                 Tone(CW_FREQUENCY_MIN, -1, FALSE, FALSE),
                 Tone(CW_FREQUENCY_MAX + 1, 0, FALSE, TRUE)}

Tones == ValidTones \cup EmptyTones \cup InvalidTones

\* Content of the slots of a queue that has been allocated but not written:
\* malloc() does not clear them, so the flags may be set.
GarbageTone == Tone(0, 0, TRUE, TRUE)

\* Value of the "tone" output argument when dequeue does not touch it.
NoTone == Tone(0, 0, FALSE, FALSE)

\* The producer threads of SpecProducers.
Producers == {"producer_1", "producer_2"}

(* ------------------------------- state --------------------------------- *)

VARIABLES
    capacity,                \* tq->capacity
    high_water_mark,         \* tq->high_water_mark
    head,                    \* tq->head
    tail,                    \* tq->tail
    len,                     \* tq->len
    state,                   \* tq->state
    queue,                   \* tq->queue[]
    low_water_mark,          \* tq->low_water_mark
    low_water_callback,      \* tq->low_water_callback
    low_water_callback_arg,  \* tq->low_water_callback_arg
    key_registered,          \* tq->gen && tq->gen->key
    tk_value,                \* tq->gen->key->tk.key_value
    mutex,                   \* tq->mutex
    cpc,                     \* position of the thread inside cw_tq_dequeue_internal()
    last,                    \* outcome of the most recent call
    enq_hist,                \* SpecFifo: the tones stored so far, in order
    last_ord,                \* SpecFifo: len field of the tone returned last
    ret_count,               \* SpecFifo: how often it was returned, up to MaxRepeats
    ret_removed,             \* SpecFifo: the tone returned last was removed
    disturbed,               \* SpecFifo: flush or handle_backspace has run
    bs_start,                \* SpecBackspace: the tones queued when the present run of
                             \*   handle_backspace calls began
    bs_n,                    \* SpecBackspace: number of calls in the run, up to capacity + 1
    drain_len,               \* SpecLowWater: len when the present drain began
    drain_calls,             \* SpecLowWater: calls of the callback in this drain
    drain_flag_len,          \* SpecLowWater: len left by the dequeue that flagged
    drain_stale,             \* SpecLowWater: a call flagged before this drain is pending
    cb_owed,                 \* SpecLowWater: crossings by dequeue minus calls
    flush_phase,             \* SpecLowWater: where len has been since the last flush
    sigalrm_blocked,         \* SpecWait: SIGALRM is blocked in the client thread
    wpc,                     \* SpecWait: the function in which the client thread waits
    w_level,                 \* SpecWait: argument level of cw_tq_wait_for_level_internal()
    w_head,                  \* SpecWait: check_tq_head of cw_tq_wait_for_tone_internal()
    w_before,                \* SpecWait: the length that the client thread read last, or
                             \*   capacity + 1 once a tone has been stored since
    w_bound,                 \* SpecWait: the level that cw_tq_wait_for_level_internal()
                             \*   last saw len at or below, or capacity once a tone has
                             \*   been stored since
    unlocked_access,         \* SpecWait: the function that looked at the queue in the
                             \*   last step without holding the mutex
    ppc,                     \* SpecProducers: position of each producer thread inside
                             \*   cw_tq_enqueue_internal()
    ptone,                   \* SpecProducers: the tone each producer thread is storing
    n_calls,                 \* SpecProducers: calls of enqueue with a tone to store
    expect,                  \* SpecProducers: the tones stored and not yet removed
    n_stored,                \* SpecProducers: enqueues of a tone that returned success
    n_removed,               \* SpecProducers: tones removed by dequeue, flush and
                             \*   handle_backspace
    gen_asleep,              \* SpecLive: the generator thread sleeps until it is woken
    dropped_first,           \* SpecCalls: a tone with len = 0 and is_first set has
                             \*   been dropped since a tone was last stored
    deq_cur,                 \* SpecCalls: return value of the most recent dequeue
    deq_cur_last,            \* SpecCalls: it removed the last tone of the queue
    deq_prev,                \* SpecCalls: return value of the dequeue before it
    deq_prev_last,           \* SpecCalls: that one removed the last tone
    bs_since,                \* SpecCalls: handle_backspace has removed every queued
                             \*   tone since the most recent dequeue
    bs_before,               \* SpecCalls: it did so between the two most recent
                             \*   dequeues
    key_busy,                \* SpecKey: which of the keys of tq->gen->key is busy
    head_shift,              \* SpecShift: head_shift of test_cw_tq_capacity_test_init()
    phase,                   \* SpecShift: which of the two queues acts next
    pending,                 \* SpecShift: the call that the other queue has yet to get
    other,                   \* SpecShift: the fields of the queue that is not acting
    n_put,                   \* SpecShift: tones stored so far, modulo capacity
    n_cut,                   \* SpecShift: tones removed by handle_backspace so far,
                             \*   modulo capacity
    flag_func,               \* SpecRace: tq->low_water_callback when dequeue last
                             \*   set call_callback
    flag_arg                 \* SpecRace: tq->low_water_callback_arg at that moment

tq_fields == <<capacity, high_water_mark, head, tail, len, state, queue,
               low_water_mark, low_water_callback, low_water_callback_arg>>

ring == <<head, tail, len, state, queue>>

history == <<enq_hist, last_ord, ret_count, ret_removed, disturbed>>

bs_history == <<bs_start, bs_n>>

lw_history == <<drain_len, drain_calls, drain_flag_len, drain_stale, cb_owed,
                flush_phase>>

\* The threads of the specifications that have more than one producer and
\* the consumer, with what is recorded about them: the client thread of
\* SpecWait,
client == <<sigalrm_blocked, wpc, w_level, w_head>>

wait_history == <<w_before, w_bound, unlocked_access>>

\* The producer threads of SpecProducers.
producers == <<ppc, ptone>>

pr_history == <<n_calls, expect, n_stored, n_removed>>

\* What SpecCalls records about the calls made, and the key of SpecKey.
call_history == <<dropped_first, deq_cur, deq_cur_last, deq_prev,
                  deq_prev_last, bs_since, bs_before>>

\* The two queues of SpecShift.
shift == <<head_shift, phase, pending, other, n_put, n_cut>>

\* What SpecRace records of the callback.
race == <<flag_func, flag_arg>>

later == <<call_history, key_busy, shift, race>>

threads == <<client, wait_history, producers, pr_history, gen_asleep, later>>

\* What each of these specifications leaves alone.
not_wait ==
    <<history, bs_history, lw_history, producers, pr_history, gen_asleep, later>>

not_producers ==
    <<history, bs_history, lw_history, client, wait_history, gen_asleep, later>>

not_live == <<bs_history, lw_history, producers, pr_history, later>>

not_calls == <<history, bs_history, lw_history, client, wait_history, producers,
               pr_history, gen_asleep, key_busy, shift, race>>

not_key == <<history, bs_history, lw_history, client, wait_history, producers,
             pr_history, gen_asleep, call_history, shift, race>>

not_shift == <<history, bs_history, lw_history, client, wait_history, producers,
               pr_history, gen_asleep, call_history, key_busy, race>>

not_race == <<history, bs_history, lw_history, client, wait_history, producers,
              pr_history, gen_asleep, call_history, key_busy, shift>>

\* Everything that records what the callers have seen, and the threads that
\* only some specifications have; no operation of the queue reads it.
ghosts == <<history, bs_history, lw_history, threads>>

vars == <<capacity, high_water_mark, head, tail, len, state, queue,
          low_water_mark, low_water_callback, low_water_callback_arg,
          key_registered, tk_value, mutex, cpc, last,
          enq_hist, last_ord, ret_count, ret_removed, disturbed,
          bs_start, bs_n,
          drain_len, drain_calls, drain_flag_len, drain_stale, cb_owed,
          flush_phase,
          sigalrm_blocked, wpc, w_level, w_head, w_before, w_bound,
          unlocked_access,
          ppc, ptone, n_calls, expect, n_stored, n_removed, gen_asleep,
          dropped_first, deq_cur, deq_cur_last, deq_prev,
          deq_prev_last, bs_since, bs_before, key_busy,
          head_shift, phase, pending, other, n_put, n_cut,
          flag_func, flag_arg>>

\* Outcome of a call: return value, errno, tone returned through the
\* output argument, whether SIGALRM was sent to the generator thread,
\* whether dequeue flagged the low water callback, and the callback and
\* argument that were invoked.
Outcome(op, rv, err, tone, wake, flagged, func, arg) ==
    [op |-> op, rv |-> rv, errno |-> err, tone |-> tone, wake |-> wake,
     call_callback |-> flagged, func |-> func, arg |-> arg]

Plain(op, rv, err) == Outcome(op, rv, err, NoTone, FALSE, FALSE, NULL, NULL)

(* ------------------------------ helpers -------------------------------- *)

cw_tq_prev_index_internal(ind) == IF ind = 0 THEN capacity - 1 ELSE ind - 1

\* cw_tq_next_index_internal() without the wrap at the end of the table.
next_index_no_wrap(ind) == ind + 1

cw_tq_next_index_internal(ind) == IF ind = capacity - 1 THEN 0 ELSE ind + 1

cw_tq_is_full_internal == len = capacity

cw_tq_length_internal == len

\* pthread_mutex_lock() that returns although another thread holds the
\* mutex.
pthread_mutex_lock_no_wait == TRUE

\* pthread_mutex_lock(&tq->mutex) returns only when no thread holds the mutex.
pthread_mutex_lock == mutex = "unlocked"

(* ------------------------ cw_tq_new_internal --------------------------- *)

\* cw_tq_new_internal() followed by cw_tq_set_capacity_internal(): an empty,
\* idle queue with no callback.
cw_tq_new_internal ==
    /\ capacity \in 1..MaxCapacity
    /\ high_water_mark = capacity
    /\ head = 0
    /\ tail = 0
    /\ len = 0
    /\ state = CW_TQ_IDLE
    /\ queue = [i \in 0..(capacity - 1) |-> GarbageTone]
    /\ low_water_mark = 0
    /\ low_water_callback = NULL
    /\ low_water_callback_arg = NULL
    /\ key_registered \in BOOLEAN
    /\ tk_value = CW_KEY_STATE_OPEN
    /\ mutex = "unlocked"
    /\ cpc = "ready"
    /\ last = Plain("new", CW_SUCCESS, ENONE)
    /\ enq_hist = <<>>
    /\ last_ord = 0
    /\ ret_count = 0
    /\ ret_removed = FALSE
    /\ disturbed = FALSE
    /\ bs_start = <<>>
    /\ bs_n = 0
    /\ drain_len = 0
    /\ drain_calls = 0
    /\ drain_flag_len = -1
    /\ drain_stale = FALSE
    /\ cb_owed = 0
    /\ flush_phase = "none"
    /\ sigalrm_blocked = FALSE
    /\ wpc = "idle"
    /\ w_level = 0
    /\ w_head = 0
    /\ w_before = 0
    /\ w_bound = capacity
    /\ unlocked_access = "none"
    /\ ppc = [p \in Producers |-> "idle"]
    /\ ptone = [p \in Producers |-> NoTone]
    /\ n_calls = 0
    /\ expect = <<>>
    /\ n_stored = 0
    /\ n_removed = 0
    /\ gen_asleep = FALSE
    /\ dropped_first = FALSE
    /\ deq_cur = "none"
    /\ deq_cur_last = FALSE
    /\ deq_prev = "none"
    /\ deq_prev_last = FALSE
    /\ bs_since = FALSE
    /\ bs_before = FALSE
    /\ key_busy = "none"
    /\ head_shift = 0
    /\ phase = "new"
    /\ pending = [op |-> "none", tone |-> NoTone]
    /\ other = [head |-> head, tail |-> tail, len |-> len, state |-> state,
                queue |-> queue, tk_value |-> tk_value, last |-> last]
    /\ n_put = 0
    /\ n_cut = 0
    /\ flag_func = NULL
    /\ flag_arg = NULL

Init == cw_tq_new_internal

(* ----------------------- common parts of actions ----------------------- *)

\* A call that returns without touching the queue.
Return(op, rv, err) ==
    /\ last' = Plain(op, rv, err)
    /\ UNCHANGED <<tq_fields, key_registered, tk_value, mutex, cpc>>

(* ---------------------- cw_tq_enqueue_internal ------------------------- *)

\* The argument check without the comparison with CW_FREQUENCY_MAX.
EnqueueArgsInvalid_no_upper_limit(tone) ==
    \/ tone.frequency < CW_FREQUENCY_MIN
    \/ tone.len < 0

\* "Check the arguments given for realistic values."
EnqueueArgsInvalid(tone) ==
    \/ tone.frequency < CW_FREQUENCY_MIN
    \/ tone.frequency > CW_FREQUENCY_MAX
    \/ tone.len < 0

\* enqueue without the early return for an empty tone.
EnqueueEmptyTone_never(tone) == FALSE

\* "Drop empty tone."
EnqueueEmptyTone(tone) == tone.len = 0

\* The test for a full queue written with > instead of ==.
EnqueueQueueFull_never == len > capacity

\* "Tone queue is full."
EnqueueQueueFull == len = capacity

\* The store without tq->len++.
EnqueueStore_len_not_incremented(tone) ==
    /\ queue' = [queue EXCEPT ![tail] = tone]
    /\ tail' = cw_tq_next_index_internal(tail)
    /\ len' = len
    /\ state' = CW_TQ_BUSY
    /\ last' = Outcome("enqueue", CW_SUCCESS, ENONE, NoTone,
                       state = CW_TQ_IDLE, FALSE, NULL, NULL)
    /\ UNCHANGED <<capacity, high_water_mark, head, low_water_mark,
                   low_water_callback, low_water_callback_arg,
                   key_registered, tk_value, mutex, cpc>>

\* The store with pthread_kill() outside the test for an idle queue.
EnqueueStore_always_wakes(tone) ==
    /\ queue' = [queue EXCEPT ![tail] = tone]
    /\ tail' = cw_tq_next_index_internal(tail)
    /\ len' = len + 1
    /\ state' = CW_TQ_BUSY
    /\ last' = Outcome("enqueue", CW_SUCCESS, ENONE, NoTone,
                       TRUE, FALSE, NULL, NULL)
    /\ UNCHANGED <<capacity, high_water_mark, head, low_water_mark,
                   low_water_callback, low_water_callback_arg,
                   key_registered, tk_value, mutex, cpc>>

\* "Enqueue the new tone": copy it to the slot at tail, advance tail,
\* increment len; an idle queue becomes busy and the generator thread is
\* sent SIGALRM.
EnqueueStore(tone) ==
    /\ queue' = [queue EXCEPT ![tail] = tone]
    /\ tail' = cw_tq_next_index_internal(tail)
    /\ len' = len + 1
    /\ state' = CW_TQ_BUSY
    /\ last' = Outcome("enqueue", CW_SUCCESS, ENONE, NoTone,
                       state = CW_TQ_IDLE, FALSE, NULL, NULL)
    /\ UNCHANGED <<capacity, high_water_mark, head, low_water_mark,
                   low_water_callback, low_water_callback_arg,
                   key_registered, tk_value, mutex, cpc>>

\* cw_key_ik_is_busy_internal(tq->gen->key) and
\* cw_key_sk_is_busy(tq->gen->key): the iambic keyer, the straight key is
\* busy.
cw_key_ik_is_busy_internal == key_busy = "ik"

cw_key_sk_is_busy == key_busy = "sk"

\* enqueue with the part between "#if 0" and "#endif" compiled in: "If the
\* keyer or straight key are busy, return an error."
Enqueue_refuses_busy_key(tone) ==
    IF EnqueueArgsInvalid(tone)
    THEN Return("enqueue", CW_FAILURE, EINVAL)
    ELSE IF EnqueueEmptyTone(tone)
    THEN Return("enqueue", CW_SUCCESS, ENONE)
    ELSE IF cw_key_ik_is_busy_internal \/ cw_key_sk_is_busy
    THEN Return("enqueue", CW_FAILURE, EBUSY)
    ELSE /\ pthread_mutex_lock
         /\ IF EnqueueQueueFull
            THEN Return("enqueue", CW_FAILURE, EAGAIN)
            ELSE EnqueueStore(tone)

\* The part between "#if 0" and "#endif" is not compiled: enqueue does not
\* ask whether a key is busy.
Enqueue(tone) ==
    IF EnqueueArgsInvalid(tone)
    THEN Return("enqueue", CW_FAILURE, EINVAL)
    ELSE IF EnqueueEmptyTone(tone)
    THEN Return("enqueue", CW_SUCCESS, ENONE)
    ELSE /\ pthread_mutex_lock
         /\ IF EnqueueQueueFull
            THEN Return("enqueue", CW_FAILURE, EAGAIN)
            ELSE EnqueueStore(tone)

cw_tq_enqueue_internal(tone) == Enqueue(tone) /\ UNCHANGED ghosts

(* ---------------------- cw_tq_dequeue_internal ------------------------- *)

\* The forever test without "tq->len == 1".
ForeverHeld_any_len(tone) == tone.is_forever

\* dequeue without the special case for a forever tone.
ForeverHeld_never(tone) == FALSE

\* "Don't permanently remove the last tone that is "forever" tone in queue."
ForeverHeld(tone) == tone.is_forever /\ len = 1

\* The low water test with "tq->len < tq->low_water_mark".
LowWaterCrossed_below_only(tq_len_before, tq_len_after) ==
    /\ low_water_callback # NULL
    /\ tq_len_before > low_water_mark
    /\ tq_len_after < low_water_mark

\* The low water test without "tq_len_before > tq->low_water_mark".
LowWaterCrossed_no_before(tq_len_before, tq_len_after) ==
    /\ low_water_callback # NULL
    /\ tq_len_after <= low_water_mark

\* The condition for calling the low water callback, from the length
\* before and after the removal.
LowWaterCrossed(tq_len_before, tq_len_after) ==
    /\ low_water_callback # NULL
    /\ tq_len_before > low_water_mark
    /\ tq_len_after <= low_water_mark

\* dequeue taking the newest tone instead of the oldest.
DequeueSlot_newest == cw_tq_prev_index_internal(tail)

\* The slot cw_tq_dequeue_sub_internal() copies the tone from.
DequeueSlot == head

\* "Notify the key control function about current tone."
\* cw_key_tk_set_value_internal(key, value): the value that
\* key->tk.key_value holds after the call.
cw_key_tk_set_value_internal(value) == value

\* The notification of the key left out.
TkSet_never(value) == tk_value

TkSet(value) ==
    IF key_registered THEN cw_key_tk_set_value_internal(value) ELSE tk_value

\* state is CW_TQ_IDLE: "Ignore calls if our state is idle."
DequeueIdle ==
    /\ state = CW_TQ_IDLE
    /\ last' = Plain("dequeue", CW_TQ_NDEQUEUED_IDLE, ENONE)
    /\ UNCHANGED <<tq_fields, key_registered, tk_value, mutex, cpc>>

\* The callback called before pthread_mutex_unlock().
DequeueCallbackMutex_still_locked == "locked"

\* The mutex while the callback runs: "we should put the callback *after* we
\* release pthread_mutex_unlock() in this function".
DequeueCallbackMutex == "unlocked"

\* state is CW_TQ_BUSY and len > 0: cw_tq_dequeue_sub_internal(), then the
\* notification of the key, all under the mutex.
DequeueTone ==
    /\ state = CW_TQ_BUSY
    /\ len # 0
    /\ LET tone == queue[DequeueSlot]
           held == ForeverHeld(tone)
           tq_len_before == len
           tq_len_after  == IF held THEN len ELSE len - 1
           call_callback == ~held /\ LowWaterCrossed(tq_len_before, tq_len_after)
       IN  /\ head' = IF held THEN head ELSE cw_tq_next_index_internal(head)
           /\ len' = tq_len_after
           /\ tk_value' = TkSet(IF tone.frequency # 0 THEN CW_KEY_STATE_CLOSED
                                                       ELSE CW_KEY_STATE_OPEN)
           /\ cpc' = IF call_callback THEN "callback" ELSE "ready"
           /\ mutex' = IF call_callback THEN DequeueCallbackMutex ELSE "unlocked"
           /\ last' = Outcome("dequeue", CW_TQ_DEQUEUED, ENONE, tone, FALSE,
                              call_callback, NULL, NULL)
    /\ UNCHANGED <<capacity, high_water_mark, tail, state, queue, low_water_mark,
                   low_water_callback, low_water_callback_arg, key_registered>>

\* The empty branch without "tq->state = CW_TQ_IDLE".
DequeueEmpty_stays_busy ==
    /\ state = CW_TQ_BUSY
    /\ len = 0
    /\ state' = CW_TQ_BUSY
    /\ tk_value' = TkSet(CW_KEY_STATE_OPEN)
    /\ last' = Plain("dequeue", CW_TQ_NDEQUEUED_EMPTY, ENONE)
    /\ UNCHANGED <<capacity, high_water_mark, head, tail, len, queue, low_water_mark,
                   low_water_callback, low_water_callback_arg, key_registered,
                   mutex, cpc>>

\* state is CW_TQ_BUSY and len = 0: "Set state to idle, indicating that
\* dequeuing has finished for the moment."
DequeueEmpty ==
    /\ state = CW_TQ_BUSY
    /\ len = 0
    /\ state' = CW_TQ_IDLE
    /\ tk_value' = TkSet(CW_KEY_STATE_OPEN)
    /\ last' = Plain("dequeue", CW_TQ_NDEQUEUED_EMPTY, ENONE)
    /\ UNCHANGED <<capacity, high_water_mark, head, tail, len, queue, low_water_mark,
                   low_water_callback, low_water_callback_arg, key_registered,
                   mutex, cpc>>

\* The part of cw_tq_dequeue_internal() that runs with the mutex held.
Dequeue ==
    /\ cpc = "ready"
    /\ pthread_mutex_lock
    /\ \/ DequeueIdle
       \/ DequeueTone
       \/ DequeueEmpty

cw_tq_dequeue_internal == Dequeue /\ UNCHANGED ghosts

\* The end of cw_tq_dequeue_internal(), after the mutex has been released:
\* the callback is called through the fields of the queue as they are now.
\* The callback is one that, like cw_test_helper_tq_callback(), calls
\* cw_tq_length_internal(), which takes the mutex and releases it.
DequeueCallback ==
    /\ cpc = "callback"
    /\ pthread_mutex_lock
    /\ mutex' = "unlocked"
    /\ cpc' = "ready"
    /\ last' = Outcome("callback", CW_TQ_DEQUEUED, ENONE, NoTone, FALSE, TRUE,
                       low_water_callback, low_water_callback_arg)
    /\ UNCHANGED <<tq_fields, key_registered, tk_value>>

cw_tq_dequeue_internal_callback == DequeueCallback /\ UNCHANGED ghosts

(* -------------- cw_tq_register_low_level_callback_internal ------------- *)

\* The level check with "level > capacity" for the upper limit.
RegisterLevelInvalid_allows_capacity(level) == level < 0 \/ level > capacity

RegisterLevelInvalid(level) == level < 0 \/ level >= capacity

RegisterLowLevelCallback(callback_func, callback_arg, level) ==
    IF RegisterLevelInvalid(level)
    THEN Return("register", CW_FAILURE, EINVAL)
    ELSE /\ low_water_mark' = level
         /\ low_water_callback' = callback_func
         /\ low_water_callback_arg' = callback_arg
         /\ last' = Plain("register", CW_SUCCESS, ENONE)
         /\ UNCHANGED <<capacity, high_water_mark, ring, key_registered, tk_value,
                        mutex, cpc>>

cw_tq_register_low_level_callback_internal(callback_func, callback_arg, level) ==
    RegisterLowLevelCallback(callback_func, callback_arg, level) /\ UNCHANGED ghosts

(* ------------------------ cw_tq_reset_internal ------------------------- *)

\* "Empty and reset the queue, and force state to idle.  Reset low water
\* mark details to their initial values."  The function takes no mutex.
Reset ==
    /\ len' = 0
    /\ head' = tail
    /\ state' = CW_TQ_IDLE
    /\ low_water_mark' = 0
    /\ low_water_callback' = NULL
    /\ low_water_callback_arg' = NULL
    /\ last' = Plain("reset", CW_SUCCESS, ENONE)
    /\ UNCHANGED <<capacity, high_water_mark, tail, queue, key_registered,
                   tk_value, mutex, cpc>>

(* ------------------------ cw_tq_flush_internal ------------------------- *)

\* flush without "tq->head = tq->tail".
Flush_head_not_moved ==
    /\ pthread_mutex_lock
    /\ len' = 0
    /\ state' = CW_TQ_IDLE
    /\ last' = Plain("flush", CW_SUCCESS, ENONE)
    /\ UNCHANGED <<capacity, high_water_mark, head, tail, queue, low_water_mark,
                   low_water_callback, low_water_callback_arg,
                   key_registered, tk_value, mutex, cpc>>

\* "Empty and reset the queue."  The wait for the dequeue to go idle that
\* follows changes no field of the queue.
Flush ==
    /\ pthread_mutex_lock
    /\ len' = 0
    /\ head' = tail
    /\ state' = CW_TQ_IDLE
    /\ last' = Plain("flush", CW_SUCCESS, ENONE)
    /\ UNCHANGED <<capacity, high_water_mark, tail, queue, low_water_mark,
                   low_water_callback, low_water_callback_arg,
                   key_registered, tk_value, mutex, cpc>>

cw_tq_flush_internal == Flush /\ UNCHANGED ghosts

(* -------------------- cw_tq_handle_backspace_internal ------------------ *)

\* The while loop: walk back from tail over at most l slots, stop at the
\* first tone with is_first set.
RECURSIVE BackspaceScan(_, _)
BackspaceScan(l, idx) ==
    IF l > 0
    THEN LET l2 == l - 1
             idx2 == cw_tq_prev_index_internal(idx)
         IN  IF queue[idx2].is_first
             THEN [is_found |-> TRUE, len |-> l2, idx |-> idx2]
             ELSE BackspaceScan(l2, idx2)
    ELSE [is_found |-> FALSE, len |-> l, idx |-> idx]

\* handle_backspace walking back over every slot of the table instead of
\* the tq->len slots in use.
HandleBackspace_scans_all_slots ==
    LET r == BackspaceScan(capacity, tail)
    IN  /\ pthread_mutex_lock
        /\ len' = IF r.is_found THEN r.len ELSE len
        /\ tail' = IF r.is_found THEN r.idx ELSE tail
        /\ last' = Plain("backspace", CW_SUCCESS, ENONE)
        /\ UNCHANGED <<capacity, high_water_mark, head, state, queue, low_water_mark,
                       low_water_callback, low_water_callback_arg,
                       key_registered, tk_value, mutex, cpc>>

\* handle_backspace cutting the queue after the is_first tone it found
\* instead of before it.
HandleBackspace_keeps_first ==
    LET r == BackspaceScan(len, tail)
    IN  /\ pthread_mutex_lock
        /\ len' = IF r.is_found THEN r.len + 1 ELSE len
        /\ tail' = IF r.is_found THEN cw_tq_next_index_internal(r.idx) ELSE tail
        /\ last' = Plain("backspace", CW_SUCCESS, ENONE)
        /\ UNCHANGED <<capacity, high_water_mark, head, state, queue, low_water_mark,
                       low_water_callback, low_water_callback_arg,
                       key_registered, tk_value, mutex, cpc>>

HandleBackspace ==
    LET r == BackspaceScan(len, tail)
    IN  /\ pthread_mutex_lock
        /\ len' = IF r.is_found THEN r.len ELSE len
        /\ tail' = IF r.is_found THEN r.idx ELSE tail
        /\ last' = Plain("backspace", CW_SUCCESS, ENONE)
        /\ UNCHANGED <<capacity, high_water_mark, head, state, queue, low_water_mark,
                       low_water_callback, low_water_callback_arg,
                       key_registered, tk_value, mutex, cpc>>

cw_tq_handle_backspace_internal == HandleBackspace /\ UNCHANGED ghosts

(* --------------------------- specification ----------------------------- *)

Next ==
    \/ \E tone \in Tones : cw_tq_enqueue_internal(tone)
    \/ cw_tq_dequeue_internal
    \/ cw_tq_dequeue_internal_callback
    \/ \E level \in (-1)..capacity :
           cw_tq_register_low_level_callback_internal(
               "callback_func", "callback_arg", level)
    \/ cw_tq_register_low_level_callback_internal(NULL, NULL, 0)
    \/ cw_tq_flush_internal
    \/ cw_tq_handle_backspace_internal

Spec == Init /\ [][Next]_vars

(* ------------------- the queue with its history ------------------------ *)

\* SpecFifo runs the same operations and records what was stored and what
\* was returned.  As in test_cw_tq_test_capacity_2(), where tone number i is
\* enqueued with a field set to i, the n-th tone stored has len = n, so
\* that a returned tone tells which enqueue it comes from.
Tagged(tone, n) == [tone EXCEPT !.len = n]

\* The tones in the queue, oldest first: the len slots from head on.
Live == [i \in 1..len |-> queue[(head + i - 1) % capacity]]

\* The operations with the record of what was stored and what was returned.
EnqueueRecorded(tone) ==
    /\ tone.len > 0 =>
          /\ tone.len = Len(enq_hist) + 1
          /\ Len(enq_hist) < MaxEnqueued + (IF len >= capacity THEN 1 ELSE 0)
    /\ Enqueue(tone)
    /\ enq_hist' = IF last'.rv = CW_SUCCESS /\ tone.len # 0
                   THEN Append(enq_hist, tone)
                   ELSE enq_hist
    /\ UNCHANGED <<last_ord, ret_count, ret_removed, disturbed>>

DequeueRecorded ==
    /\ Dequeue
    /\ IF last'.rv = CW_TQ_DEQUEUED
       THEN /\ last_ord' = last'.tone.len
            /\ ret_count' = IF last'.tone.len # last_ord THEN 1
                            ELSE IF ret_count < MaxRepeats THEN ret_count + 1
                            ELSE ret_count
            /\ ret_removed' = (len' < len)
       ELSE UNCHANGED <<last_ord, ret_count, ret_removed>>
    /\ UNCHANGED <<enq_hist, disturbed>>

FlushRecorded ==
    /\ Flush
    /\ disturbed' = TRUE
    /\ UNCHANGED <<enq_hist, last_ord, ret_count, ret_removed>>

HandleBackspaceRecorded ==
    /\ HandleBackspace
    /\ disturbed' = TRUE
    /\ UNCHANGED <<enq_hist, last_ord, ret_count, ret_removed>>

cw_tq_enqueue_internal_fifo(tone) ==
    EnqueueRecorded(tone) /\ UNCHANGED <<bs_history, lw_history, threads>>

cw_tq_dequeue_internal_fifo ==
    DequeueRecorded /\ UNCHANGED <<bs_history, lw_history, threads>>

cw_tq_flush_internal_fifo ==
    FlushRecorded /\ UNCHANGED <<bs_history, lw_history, threads>>

cw_tq_handle_backspace_internal_fifo ==
    HandleBackspaceRecorded /\ UNCHANGED <<bs_history, lw_history, threads>>

\* Tones offered in SpecFifo: a plain tone, a forever tone and the first
\* tone of a character are stored; one empty and one invalid tone are not.
FifoTones == {tone \in ValidTones : tone.frequency # 0}

FifoRejectedTones == {Tone(CW_FREQUENCY_MAX, 0, FALSE, TRUE),
                      Tone(CW_FREQUENCY_MAX + 1, 1, FALSE, FALSE)}

InitFifo == cw_tq_new_internal /\ key_registered

NextFifo ==
    \/ \E tone \in FifoTones :
           cw_tq_enqueue_internal_fifo(Tagged(tone, Len(enq_hist) + 1))
    \/ \E tone \in FifoRejectedTones : cw_tq_enqueue_internal_fifo(tone)
    \/ cw_tq_dequeue_internal_fifo
    \/ cw_tq_flush_internal_fifo
    \/ cw_tq_handle_backspace_internal_fifo

SpecFifo == InitFifo /\ [][NextFifo]_vars

(* ------------------ characters and handle_backspace -------------------- *)

\* SpecBackspace: a producer that enqueues the tones of characters and
\* calls handle_backspace, and the consumer's dequeue, in any order.  It
\* keeps the record of SpecFifo and, for a run of handle_backspace calls
\* with no other call in between, the tones queued when the run began.

\* A call that is not handle_backspace ends a run of handle_backspace calls.
BackspaceRunEnds ==
    /\ bs_start' = <<>>
    /\ bs_n' = 0

cw_tq_enqueue_internal_bs(tone) ==
    /\ EnqueueRecorded(tone)
    /\ BackspaceRunEnds
    /\ UNCHANGED <<lw_history, threads>>

cw_tq_dequeue_internal_bs ==
    /\ DequeueRecorded
    /\ BackspaceRunEnds
    /\ UNCHANGED <<lw_history, threads>>

cw_tq_handle_backspace_internal_bs ==
    /\ HandleBackspaceRecorded
    /\ IF last.op = "backspace"
       THEN /\ bs_n' = IF bs_n <= capacity THEN bs_n + 1 ELSE bs_n
            /\ bs_start' = bs_start
       ELSE /\ bs_n' = 1
            /\ bs_start' = Live
    /\ UNCHANGED <<lw_history, threads>>

\* Tones offered in SpecBackspace: the first tone of a character, a tone
\* that follows it, and a first tone that is a forever tone.
BackspaceTones == {Tone(CW_FREQUENCY_MAX, 1, FALSE, TRUE),
                   Tone(CW_FREQUENCY_MAX, 1, FALSE, FALSE),
                   Tone(CW_FREQUENCY_MAX, 1, TRUE, TRUE)}

InitBackspace == cw_tq_new_internal /\ key_registered

NextBackspace ==
    \/ \E tone \in BackspaceTones :
           cw_tq_enqueue_internal_bs(Tagged(tone, Len(enq_hist) + 1))
    \/ cw_tq_dequeue_internal_bs
    \/ cw_tq_handle_backspace_internal_bs

SpecBackspace == InitBackspace /\ [][NextBackspace]_vars

(* ----------------- the queue with a low water callback ----------------- *)

\* SpecLowWater is the use test_cw_tq_callback() makes of the queue: a
\* callback is registered once, tones are enqueued and dequeued, and the
\* calls of the callback are counted.  A drain is a run of dequeue calls; a
\* call of any other operation starts a new one.
DrainRestarts ==
    /\ drain_len' = len'
    /\ drain_calls' = 0
    /\ drain_flag_len' = -1
    /\ drain_stale' = (cpc = "callback")

cw_tq_enqueue_internal_lw(tone) ==
    /\ Enqueue(tone)
    /\ DrainRestarts
    /\ UNCHANGED <<cb_owed, flush_phase, history, bs_history, threads>>

cw_tq_dequeue_internal_lw ==
    /\ Dequeue
    /\ drain_flag_len' = IF last'.call_callback THEN len' ELSE drain_flag_len
    /\ cb_owed' = IF /\ low_water_callback # NULL
                     /\ len > low_water_mark
                     /\ len' <= low_water_mark
                     /\ cb_owed < 2
                  THEN cb_owed + 1
                  ELSE cb_owed
    /\ flush_phase' = IF len > low_water_mark /\ len' <= low_water_mark
                      THEN "none"
                      ELSE flush_phase
    /\ UNCHANGED <<drain_len, drain_calls, drain_stale, history, bs_history, threads>>

cw_tq_dequeue_internal_callback_lw ==
    /\ DequeueCallback
    /\ drain_calls' = IF ~drain_stale /\ drain_calls < 2
                      THEN drain_calls + 1
                      ELSE drain_calls
    /\ drain_stale' = FALSE
    /\ cb_owed' = IF cb_owed > -1 THEN cb_owed - 1 ELSE cb_owed
    /\ UNCHANGED <<drain_len, drain_flag_len, flush_phase, history, bs_history, threads>>

cw_tq_register_low_level_callback_internal_lw(level) ==
    /\ low_water_callback = NULL
    /\ RegisterLowLevelCallback("callback_func", "callback_arg", level)
    /\ DrainRestarts
    /\ UNCHANGED <<cb_owed, flush_phase, history, bs_history, threads>>

cw_tq_flush_internal_lw ==
    /\ Flush
    /\ DrainRestarts
    /\ flush_phase' = "flushed"
    /\ UNCHANGED <<cb_owed, history, bs_history, threads>>

cw_tq_handle_backspace_internal_lw ==
    /\ HandleBackspace
    /\ DrainRestarts
    /\ UNCHANGED <<cb_owed, flush_phase, history, bs_history, threads>>

\* Tones offered in SpecLowWater: a plain tone, a forever tone and the
\* first tone of a character.
LowWaterTones == {tone \in ValidTones : tone.frequency # 0}

InitLowWater == cw_tq_new_internal /\ key_registered

NextLowWater ==
    \/ \E tone \in LowWaterTones : cw_tq_enqueue_internal_lw(tone)
    \/ cw_tq_dequeue_internal_lw
    \/ cw_tq_dequeue_internal_callback_lw
    \/ \E level \in 0..(capacity - 1) :
           cw_tq_register_low_level_callback_internal_lw(level)
    \/ cw_tq_flush_internal_lw
    \/ cw_tq_handle_backspace_internal_lw

SpecLowWater == InitLowWater /\ [][NextLowWater]_vars

(* ---------------- the queue with a client that waits ------------------- *)

\* SpecWait has three threads: a producer (enqueue, handle_backspace), the
\* consumer (dequeue) and a client that reads the length, asks whether the
\* queue is full, flushes, and calls the functions that wait.  A function
\* that waits tests its condition and calls cw_signal_wait_internal() while
\* the condition does not hold; each signal makes it test again, so a
\* thread in the loop can test at any moment.  The first test is made in
\* the step of the call.

\* cw_sigalrm_is_blocked_internal(): SIGALRM is in the signal mask of the
\* calling thread.
cw_sigalrm_is_blocked_internal == sigalrm_blocked

\* The outcome of a call of the client thread, which is back in its own
\* code.
ClientOutcome(op, rv, err) ==
    /\ last' = Plain(op, rv, err)
    /\ wpc' = "idle"

\* A call of the client thread that looks at no field of the queue.
ClientReturn(op, rv, err) ==
    /\ ClientOutcome(op, rv, err)
    /\ unlocked_access' = "none"
    /\ UNCHANGED <<tq_fields, key_registered, tk_value, mutex, cpc, w_before, w_bound>>

\* cw_sigalrm_block_internal(block): the client thread blocks or unblocks
\* SIGALRM.
cw_sigalrm_block_internal(block) ==
    /\ wpc = "idle"
    /\ sigalrm_blocked' = block
    /\ ClientReturn("sigalrm_block", CW_SUCCESS, ENONE)
    /\ UNCHANGED <<w_level, w_head, not_wait>>

\* "if (cw_sigalrm_is_blocked_internal()) { errno = EDEADLK; return
\* CW_FAILURE; }"
WaitDeadlock(op) ==
    /\ ClientReturn(op, CW_FAILURE, EDEADLK)
    /\ UNCHANGED <<sigalrm_blocked, w_level, w_head>>

\* The loop of cw_tq_wait_for_tone_internal() left at the first signal.
WaitForToneOver_at_once == TRUE

\* The loop of cw_tq_wait_for_tone_internal() is left: not (tq->head ==
\* check_tq_head && tq->state != CW_TQ_IDLE).
WaitForToneOver == head # w_head \/ state = CW_TQ_IDLE

\* The call: the check for a blocked signal, check_tq_head = tq->head and
\* the first test of the loop.  Neither read is made under the mutex.
WaitForToneCall ==
    /\ wpc = "idle"
    /\ IF cw_sigalrm_is_blocked_internal
       THEN WaitDeadlock("wait_for_tone")
       ELSE /\ unlocked_access' = "wait_for_tone"
            /\ IF state = CW_TQ_IDLE
               THEN /\ ClientOutcome("wait_for_tone", CW_SUCCESS, ENONE)
                    /\ w_head' = 0
               ELSE /\ wpc' = "wait_for_tone"
                    /\ w_head' = head
                    /\ UNCHANGED last
            /\ UNCHANGED <<tq_fields, key_registered, tk_value, mutex, cpc,
                           sigalrm_blocked, w_level, w_before, w_bound>>

\* A later test of the loop that ends it.
WaitForToneLoop ==
    /\ wpc = "wait_for_tone"
    /\ WaitForToneOver
    /\ ClientOutcome("wait_for_tone", CW_SUCCESS, ENONE)
    /\ w_head' = 0
    /\ unlocked_access' = "wait_for_tone"
    /\ UNCHANGED <<tq_fields, key_registered, tk_value, mutex, cpc,
                   sigalrm_blocked, w_level, w_before, w_bound>>

cw_tq_wait_for_tone_internal ==
    WaitForToneCall /\ UNCHANGED not_wait

cw_tq_wait_for_tone_internal_loop ==
    WaitForToneLoop /\ UNCHANGED not_wait

\* cw_tq_wait_for_tone_queue_internal(): "while (tq->state != CW_TQ_IDLE)",
\* read without the mutex.
WaitForToneQueueCall ==
    /\ wpc = "idle"
    /\ IF cw_sigalrm_is_blocked_internal
       THEN WaitDeadlock("wait_for_tone_queue")
       ELSE /\ unlocked_access' = "wait_for_tone_queue"
            /\ IF state = CW_TQ_IDLE
               THEN ClientOutcome("wait_for_tone_queue", CW_SUCCESS, ENONE)
               ELSE /\ wpc' = "wait_for_tone_queue"
                    /\ UNCHANGED last
            /\ UNCHANGED <<tq_fields, key_registered, tk_value, mutex, cpc,
                           sigalrm_blocked, w_level, w_head, w_before, w_bound>>

WaitForToneQueueLoop ==
    /\ wpc = "wait_for_tone_queue"
    /\ state = CW_TQ_IDLE
    /\ ClientOutcome("wait_for_tone_queue", CW_SUCCESS, ENONE)
    /\ unlocked_access' = "wait_for_tone_queue"
    /\ UNCHANGED <<tq_fields, key_registered, tk_value, mutex, cpc,
                   sigalrm_blocked, w_level, w_head, w_before, w_bound>>

cw_tq_wait_for_tone_queue_internal ==
    WaitForToneQueueCall /\ UNCHANGED not_wait

cw_tq_wait_for_tone_queue_internal_loop ==
    WaitForToneQueueLoop /\ UNCHANGED not_wait

\* The test of the loop with level + 1 for level.
WaitForLevelOver_one_more(level) == cw_tq_length_internal <= level + 1

\* The loop of cw_tq_wait_for_level_internal() is left: not
\* (cw_tq_length_internal(tq) > level).
WaitForLevelOver(level) == cw_tq_length_internal <= level

\* The call, with the first test of the loop; cw_tq_length_internal() reads
\* len under the mutex.
WaitForLevelCall(level) ==
    /\ wpc = "idle"
    /\ IF cw_sigalrm_is_blocked_internal
       THEN WaitDeadlock("wait_for_level")
       ELSE /\ pthread_mutex_lock
            /\ unlocked_access' = "none"
            /\ w_before' = cw_tq_length_internal
            /\ IF WaitForLevelOver(level)
               THEN /\ ClientOutcome("wait_for_level", CW_SUCCESS, ENONE)
                    /\ w_level' = 0
                    /\ w_bound' = level
               ELSE /\ wpc' = "wait_for_level"
                    /\ w_level' = level
                    /\ UNCHANGED <<last, w_bound>>
            /\ UNCHANGED <<tq_fields, key_registered, tk_value, mutex, cpc,
                           sigalrm_blocked, w_head>>

\* A later test of the loop that ends it.
WaitForLevelLoop ==
    /\ wpc = "wait_for_level"
    /\ pthread_mutex_lock
    /\ WaitForLevelOver(w_level)
    /\ ClientOutcome("wait_for_level", CW_SUCCESS, ENONE)
    /\ unlocked_access' = "none"
    /\ w_before' = cw_tq_length_internal
    /\ w_level' = 0
    /\ w_bound' = w_level
    /\ UNCHANGED <<tq_fields, key_registered, tk_value, mutex, cpc,
                   sigalrm_blocked, w_head>>

cw_tq_wait_for_level_internal(level) ==
    WaitForLevelCall(level) /\ UNCHANGED not_wait

cw_tq_wait_for_level_internal_loop ==
    WaitForLevelLoop /\ UNCHANGED not_wait

\* cw_tq_flush_internal() waits whether or not SIGALRM is blocked.
FlushWaits_always == TRUE

\* "If we can, wait until the dequeue goes idle."
FlushWaits == ~cw_sigalrm_is_blocked_internal

\* cw_tq_flush_internal() up to the call of
\* cw_tq_wait_for_tone_queue_internal().
FlushCall ==
    /\ wpc = "idle"
    /\ Flush
    /\ unlocked_access' = "none"
    /\ wpc' = IF FlushWaits THEN "flush" ELSE "idle"
    /\ UNCHANGED <<sigalrm_blocked, w_level, w_head, w_before, w_bound>>

\* The loop of cw_tq_wait_for_tone_queue_internal() called by
\* cw_tq_flush_internal().
FlushLoop ==
    /\ wpc = "flush"
    /\ state = CW_TQ_IDLE
    /\ ClientOutcome("flush_return", CW_SUCCESS, ENONE)
    /\ unlocked_access' = "wait_for_tone_queue"
    /\ UNCHANGED <<tq_fields, key_registered, tk_value, mutex, cpc,
                   sigalrm_blocked, w_level, w_head, w_before, w_bound>>

cw_tq_flush_internal_wait ==
    FlushCall /\ UNCHANGED not_wait

cw_tq_flush_internal_wait_loop ==
    FlushLoop /\ UNCHANGED not_wait

\* The client thread reads the length.
cw_tq_length_internal_wait ==
    /\ wpc = "idle"
    /\ pthread_mutex_lock
    /\ w_before' = cw_tq_length_internal
    /\ ClientOutcome("length", CW_SUCCESS, ENONE)
    /\ unlocked_access' = "none"
    /\ UNCHANGED <<tq_fields, key_registered, tk_value, mutex, cpc,
                   sigalrm_blocked, w_level, w_head, w_bound,
                   not_wait>>

\* The client thread asks whether the queue is full: "return tq->len ==
\* tq->capacity;", with no mutex.
cw_tq_is_full_internal_wait ==
    /\ wpc = "idle"
    /\ ClientOutcome("is_full",
                     IF cw_tq_is_full_internal THEN "true" ELSE "false", ENONE)
    /\ unlocked_access' = "is_full"
    /\ UNCHANGED <<tq_fields, key_registered, tk_value, mutex, cpc,
                   sigalrm_blocked, w_level, w_head, w_before, w_bound,
                   not_wait>>

\* The client thread switches the callback off; the function takes no
\* mutex.
cw_tq_register_low_level_callback_internal_wait ==
    /\ wpc = "idle"
    /\ RegisterLowLevelCallback(NULL, NULL, 0)
    /\ unlocked_access' = "register"
    /\ UNCHANGED <<client, w_before, w_bound, not_wait>>

\* The operations of the other two threads.
cw_tq_enqueue_internal_wait(tone) ==
    /\ Enqueue(tone)
    /\ w_before' = IF len' # len THEN capacity + 1 ELSE w_before
    /\ w_bound' = IF len' # len THEN capacity ELSE w_bound
    /\ unlocked_access' = "none"
    /\ UNCHANGED <<client, not_wait>>

cw_tq_dequeue_internal_wait ==
    /\ Dequeue
    /\ unlocked_access' = "none"
    /\ UNCHANGED <<client, w_before, w_bound, not_wait>>

cw_tq_handle_backspace_internal_wait ==
    /\ HandleBackspace
    /\ unlocked_access' = "none"
    /\ UNCHANGED <<client, w_before, w_bound, not_wait>>

\* Tones offered in SpecWait: a plain tone, a forever tone and the first
\* tone of a character.
WaitTones == {tone \in ValidTones : tone.frequency # 0}

InitWait == cw_tq_new_internal /\ key_registered

NextWait ==
    \/ \E tone \in WaitTones : cw_tq_enqueue_internal_wait(tone)
    \/ cw_tq_dequeue_internal_wait
    \/ cw_tq_handle_backspace_internal_wait
    \/ \E block \in BOOLEAN : cw_sigalrm_block_internal(block)
    \/ cw_tq_length_internal_wait
    \/ cw_tq_is_full_internal_wait
    \/ cw_tq_register_low_level_callback_internal_wait
    \/ cw_tq_wait_for_tone_internal
    \/ cw_tq_wait_for_tone_internal_loop
    \/ cw_tq_wait_for_tone_queue_internal
    \/ cw_tq_wait_for_tone_queue_internal_loop
    \/ \E level \in 0..(capacity - 1) : cw_tq_wait_for_level_internal(level)
    \/ cw_tq_wait_for_level_internal_loop
    \/ cw_tq_flush_internal_wait
    \/ cw_tq_flush_internal_wait_loop

SpecWait == InitWait /\ [][NextWait]_vars

(* --------------- the queue with two producer threads ------------------- *)

\* In SpecProducers the part of cw_tq_enqueue_internal() that runs under
\* the mutex takes two steps, so that another thread can run between the
\* copy of the tone to the slot at tail and the update of tail and len; the
\* mutex is what keeps it from touching the queue.  Tone number n has
\* len = n.

\* The first step: after the argument checks the thread takes the mutex;
\* with a full queue it gives up, otherwise it copies the tone to the slot
\* at tail.
EnqueueCopy(p, tone) ==
    /\ ppc[p] = "idle"
    /\ ~EnqueueArgsInvalid(tone)
    /\ ~EnqueueEmptyTone(tone)
    /\ pthread_mutex_lock
    /\ IF EnqueueQueueFull
       THEN /\ Return("enqueue", CW_FAILURE, EAGAIN)
            /\ UNCHANGED <<ppc, ptone>>
       ELSE /\ queue' = [queue EXCEPT ![tail] = tone]
            /\ mutex' = "locked"
            /\ ppc' = [ppc EXCEPT ![p] = "copied"]
            /\ ptone' = [ptone EXCEPT ![p] = tone]
            /\ UNCHANGED <<capacity, high_water_mark, head, tail, len, state,
                           low_water_mark, low_water_callback,
                           low_water_callback_arg, key_registered, tk_value,
                           cpc, last>>

\* The second step: tail and len are updated, an idle queue becomes busy
\* and the generator thread is sent SIGALRM, and the mutex is released.
EnqueueAdvance(p) ==
    /\ ppc[p] = "copied"
    /\ tail' = cw_tq_next_index_internal(tail)
    /\ len' = len + 1
    /\ state' = CW_TQ_BUSY
    /\ mutex' = "unlocked"
    /\ last' = Outcome("enqueue", CW_SUCCESS, ENONE, NoTone,
                       state = CW_TQ_IDLE, FALSE, NULL, NULL)
    /\ ppc' = [ppc EXCEPT ![p] = "idle"]
    /\ ptone' = [ptone EXCEPT ![p] = NoTone]
    /\ UNCHANGED <<capacity, high_water_mark, head, queue, low_water_mark,
                   low_water_callback, low_water_callback_arg,
                   key_registered, tk_value, cpc>>

cw_tq_enqueue_internal_copy(p, tone) ==
    /\ n_calls < MaxEnqueued
    /\ tone.len = n_calls + 1
    /\ EnqueueCopy(p, tone)
    /\ n_calls' = IF ppc'[p] = "copied" THEN n_calls + 1 ELSE n_calls
    /\ UNCHANGED <<expect, n_stored, n_removed, not_producers>>

cw_tq_enqueue_internal_advance(p) ==
    /\ expect' = Append(expect, ptone[p])
    /\ n_stored' = n_stored + 1
    /\ EnqueueAdvance(p)
    /\ UNCHANGED <<n_calls, n_removed, not_producers>>

\* A tone that enqueue does not store.
cw_tq_enqueue_internal_rejected(p, tone) ==
    /\ ppc[p] = "idle"
    /\ EnqueueArgsInvalid(tone) \/ EnqueueEmptyTone(tone)
    /\ Enqueue(tone)
    /\ UNCHANGED <<producers, pr_history, not_producers>>

cw_tq_dequeue_internal_producers ==
    /\ Dequeue
    /\ expect' = IF len' < len THEN Tail(expect) ELSE expect
    /\ n_removed' = n_removed + (len - len')
    /\ UNCHANGED <<producers, n_calls, n_stored, not_producers>>

cw_tq_flush_internal_producers ==
    /\ Flush
    /\ expect' = <<>>
    /\ n_removed' = n_removed + len
    /\ UNCHANGED <<producers, n_calls, n_stored, not_producers>>

cw_tq_handle_backspace_internal_producers ==
    /\ HandleBackspace
    /\ expect' = SubSeq(expect, 1, Len(expect) - (len - len'))
    /\ n_removed' = n_removed + (len - len')
    /\ UNCHANGED <<producers, n_calls, n_stored, not_producers>>

InitProducers == cw_tq_new_internal /\ key_registered

NextProducers ==
    \/ \E p \in Producers, tone \in FifoTones :
           cw_tq_enqueue_internal_copy(p, Tagged(tone, n_calls + 1))
    \/ \E p \in Producers : cw_tq_enqueue_internal_advance(p)
    \/ \E p \in Producers, tone \in FifoRejectedTones :
           cw_tq_enqueue_internal_rejected(p, tone)
    \/ cw_tq_dequeue_internal_producers
    \/ cw_tq_flush_internal_producers
    \/ cw_tq_handle_backspace_internal_producers

SpecProducers == InitProducers /\ [][NextProducers]_vars

(* ------------- the queue drained by the generator thread --------------- *)

\* SpecLive: the generator thread calls dequeue again and again; when
\* dequeue returns CW_TQ_NDEQUEUED_IDLE it sleeps until the SIGALRM that
\* enqueue sends for an idle queue.  Producers store at most MaxEnqueued
\* tones, none of them a forever tone, and a client waits for the queue.
\* The generator thread is a thread of its own, so it is scheduled again
\* and again; the client is signalled again and again, so its loop tests
\* again once its condition holds for good.

\* The generator thread goes to sleep on this return value of dequeue.
GeneratorSleeps(rv) == rv = CW_TQ_NDEQUEUED_IDLE

\* The generator thread still sleeps after an enqueue: SIGALRM ends the
\* sleep.
GeneratorSleepsOn(wake) == gen_asleep /\ ~wake

cw_tq_enqueue_internal_live(tone) ==
    /\ EnqueueRecorded(tone)
    /\ gen_asleep' = GeneratorSleepsOn(last'.wake)
    /\ w_before' = IF len' # len THEN capacity + 1 ELSE w_before
    /\ w_bound' = IF len' # len THEN capacity ELSE w_bound
    /\ unlocked_access' = "none"
    /\ UNCHANGED <<client, not_live>>

cw_tq_dequeue_internal_live ==
    /\ ~gen_asleep
    /\ DequeueRecorded
    /\ gen_asleep' = GeneratorSleeps(last'.rv)
    /\ unlocked_access' = "none"
    /\ UNCHANGED <<client, w_before, w_bound, not_live>>

cw_tq_wait_for_tone_queue_internal_live ==
    WaitForToneQueueCall /\ UNCHANGED <<history, gen_asleep, not_live>>

cw_tq_wait_for_tone_queue_internal_loop_live ==
    WaitForToneQueueLoop /\ UNCHANGED <<history, gen_asleep, not_live>>

cw_tq_wait_for_level_internal_live ==
    WaitForLevelCall(0) /\ UNCHANGED <<history, gen_asleep, not_live>>

cw_tq_wait_for_level_internal_loop_live ==
    WaitForLevelLoop /\ UNCHANGED <<history, gen_asleep, not_live>>

\* Tones offered in SpecLive: a mark and a space.
LiveTones == {tone \in ValidTones : ~tone.is_forever /\ ~tone.is_first}

InitLive == cw_tq_new_internal /\ key_registered

NextLive ==
    \/ \E tone \in LiveTones :
           cw_tq_enqueue_internal_live(Tagged(tone, Len(enq_hist) + 1))
    \/ cw_tq_dequeue_internal_live
    \/ cw_tq_wait_for_tone_queue_internal_live
    \/ cw_tq_wait_for_tone_queue_internal_loop_live
    \/ cw_tq_wait_for_level_internal_live
    \/ cw_tq_wait_for_level_internal_loop_live

SpecLive ==
    /\ InitLive
    /\ [][NextLive]_vars
    /\ WF_vars(cw_tq_dequeue_internal_live)
    /\ WF_vars(cw_tq_wait_for_tone_queue_internal_loop_live)
    /\ WF_vars(cw_tq_wait_for_level_internal_loop_live)

(* ------------------- the queue with a record of calls ------------------ *)

\* SpecCalls: the producer's enqueue, flush and handle_backspace and the
\* consumer's dequeue, in any order, with a record of the zero-length tones
\* that enqueue dropped and of the results of the last two dequeues.

\* enqueue: a tone that is dropped with is_first set is remembered until a
\* tone is stored.
cw_tq_enqueue_internal_calls(tone) ==
    /\ Enqueue(tone)
    /\ LET stored == len' = len + 1
           dropped == ~EnqueueArgsInvalid(tone) /\ tone.len = 0 /\ ~stored
       IN  dropped_first' = IF stored THEN FALSE
                            ELSE IF dropped THEN dropped_first \/ tone.is_first
                            ELSE dropped_first
    /\ UNCHANGED <<deq_cur, deq_cur_last, deq_prev, deq_prev_last, bs_since,
                   bs_before>>
    /\ UNCHANGED not_calls

cw_tq_dequeue_internal_calls ==
    /\ Dequeue
    /\ deq_prev' = deq_cur
    /\ deq_prev_last' = deq_cur_last
    /\ deq_cur' = last'.rv
    /\ deq_cur_last' = (len = 1 /\ len' = 0)
    /\ bs_before' = bs_since
    /\ bs_since' = FALSE
    /\ UNCHANGED dropped_first
    /\ UNCHANGED not_calls

cw_tq_flush_internal_calls ==
    /\ Flush
    /\ UNCHANGED <<call_history, not_calls>>

cw_tq_handle_backspace_internal_calls ==
    /\ HandleBackspace
    /\ bs_since' = (bs_since \/ (len > 0 /\ len' = 0))
    /\ UNCHANGED <<dropped_first, deq_cur, deq_cur_last, deq_prev,
                   deq_prev_last, bs_before>>
    /\ UNCHANGED not_calls

\* Tones offered in SpecCalls: the first tone of a character and a tone
\* that follows it, and the same two with len = 0.
CallTones == {Tone(CW_FREQUENCY_MAX, 1, FALSE, TRUE),
              Tone(CW_FREQUENCY_MAX, 1, FALSE, FALSE),
              Tone(CW_FREQUENCY_MAX, 0, FALSE, TRUE),
              Tone(CW_FREQUENCY_MAX, 0, FALSE, FALSE)}

InitCalls == cw_tq_new_internal /\ key_registered

NextCalls ==
    \/ \E tone \in CallTones : cw_tq_enqueue_internal_calls(tone)
    \/ cw_tq_dequeue_internal_calls
    \/ cw_tq_flush_internal_calls
    \/ cw_tq_handle_backspace_internal_calls

SpecCalls == InitCalls /\ [][NextCalls]_vars

(* ----------------------- the queue and the keys ------------------------ *)

\* SpecKey: the queue of a generator whose key is used while tones are
\* enqueued and dequeued: the iambic keyer or the straight key becomes busy
\* and idle again at any time.

\* The keyer starts or ends an element, the straight key is pressed or
\* released.
KeyChanges(busy) ==
    /\ key_busy # busy
    /\ key_busy' = busy
    /\ last' = Plain("key", CW_SUCCESS, ENONE)
    /\ UNCHANGED <<tq_fields, key_registered, tk_value, mutex, cpc>>
    /\ UNCHANGED not_key

cw_tq_enqueue_internal_key(tone) ==
    /\ Enqueue(tone)
    /\ UNCHANGED <<key_busy, not_key>>

cw_tq_dequeue_internal_key ==
    /\ Dequeue
    /\ UNCHANGED <<key_busy, not_key>>

InitKey == cw_tq_new_internal /\ key_registered

NextKey ==
    \/ \E busy \in {"none", "ik", "sk"} : KeyChanges(busy)
    \/ \E tone \in Tones : cw_tq_enqueue_internal_key(tone)
    \/ cw_tq_dequeue_internal_key

SpecKey == InitKey /\ [][NextKey]_vars

(* ------------------ two queues that start at two slots ----------------- *)

\* SpecShift is test_cw_tq_test_capacity_1() and _2() with every call made
\* on two queues of the same capacity: one made by
\* test_cw_tq_capacity_test_init() with head_shift = h, then one made with
\* head_shift = 0.  The variables of the queue hold the queue that acts,
\* "other" holds the one that waits for its turn.

\* The fields of the queue that acts.
Acting ==
    [head |-> head, tail |-> tail, len |-> len, state |-> state,
     queue |-> queue, tk_value |-> tk_value, last |-> last]

\* test_cw_tq_capacity_test_init(capacity, high_water_mark, head_shift),
\* called with head_shift = h and with head_shift = 0: every slot gets a
\* known tone, head and tail are moved to head_shift, state is set to
\* CW_TQ_BUSY.
test_cw_tq_capacity_test_init(h) ==
    /\ phase = "new"
    /\ LET slots == [i \in 0..(capacity - 1) |-> Tone(10000 + i, 1, FALSE, FALSE)]
       IN  /\ queue' = slots
           /\ tail' = h
           /\ head' = h
           /\ len' = 0
           /\ state' = CW_TQ_BUSY
           /\ last' = Plain("init", CW_SUCCESS, ENONE)
           /\ other' = [head |-> 0, tail |-> 0, len |-> 0, state |-> CW_TQ_BUSY,
                        queue |-> slots, tk_value |-> tk_value,
                        last |-> Plain("init", CW_SUCCESS, ENONE)]
    /\ head_shift' = h
    /\ phase' = "shifted"
    /\ UNCHANGED <<capacity, high_water_mark, low_water_mark, low_water_callback,
                   low_water_callback_arg, key_registered, tk_value, mutex, cpc>>
    /\ UNCHANGED <<pending, n_put, n_cut, not_shift>>

\* The test turns from one queue to the other.
TurnToOtherQueue ==
    /\ phase \in {"to_reference", "to_shifted"}
    /\ head' = other.head
    /\ tail' = other.tail
    /\ len' = other.len
    /\ state' = other.state
    /\ queue' = other.queue
    /\ tk_value' = other.tk_value
    /\ last' = other.last
    /\ other' = Acting
    /\ phase' = IF phase = "to_reference" THEN "reference" ELSE "shifted"
    /\ pending' = IF phase = "to_reference" THEN pending
                  ELSE [op |-> "none", tone |-> NoTone]
    /\ UNCHANGED <<capacity, high_water_mark, low_water_mark, low_water_callback,
                   low_water_callback_arg, key_registered, mutex, cpc>>
    /\ UNCHANGED <<head_shift, n_put, n_cut, not_shift>>

\* A call is made on the queue that starts at head_shift, then the same
\* call on the queue that starts at 0.
CallOnBoth(op, tone) ==
    /\ \/ /\ phase = "shifted"
          /\ pending' = [op |-> op, tone |-> tone]
          /\ phase' = "to_reference"
          /\ n_put' = IF len' = len + 1 THEN (n_put + 1) % capacity ELSE n_put
          /\ n_cut' = IF op = "backspace" THEN (n_cut + len - len') % capacity
                      ELSE n_cut
       \/ /\ phase = "reference"
          /\ pending = [op |-> op, tone |-> tone]
          /\ phase' = "to_shifted"
          /\ UNCHANGED <<pending, n_put, n_cut>>
    /\ UNCHANGED <<head_shift, other, not_shift>>

cw_tq_enqueue_internal_shift(tone) ==
    Enqueue(tone) /\ CallOnBoth("enqueue", tone)

cw_tq_dequeue_internal_shift ==
    Dequeue /\ CallOnBoth("dequeue", NoTone)

cw_tq_flush_internal_shift ==
    Flush /\ CallOnBoth("flush", NoTone)

cw_tq_handle_backspace_internal_shift ==
    HandleBackspace /\ CallOnBoth("backspace", NoTone)

\* Tones offered in SpecShift: the first tone of a character, a tone that
\* follows it and a forever tone.
ShiftTones == {Tone(CW_FREQUENCY_MAX, 1, FALSE, TRUE),
               Tone(CW_FREQUENCY_MIN, 1, FALSE, FALSE),
               Tone(CW_FREQUENCY_MAX, 1, TRUE, FALSE)}

InitShift == cw_tq_new_internal /\ key_registered

NextShift ==
    \/ \E h \in 0..(capacity - 1) : test_cw_tq_capacity_test_init(h)
    \/ TurnToOtherQueue
    \/ \E tone \in ShiftTones : cw_tq_enqueue_internal_shift(tone)
    \/ cw_tq_dequeue_internal_shift
    \/ cw_tq_flush_internal_shift
    \/ cw_tq_handle_backspace_internal_shift

SpecShift == InitShift /\ [][NextShift]_vars

(* ------------- the callback fields and the pending callback ------------ *)

\* SpecRace: the consumer's dequeue, with the call of the callback as a step
\* of its own after the mutex is released, and a client thread that
\* registers a callback, registers none, or resets the queue at any moment.
\* It records the callback fields as they were when dequeue set
\* call_callback.

cw_tq_enqueue_internal_race(tone) ==
    /\ Enqueue(tone)
    /\ UNCHANGED <<race, not_race>>

cw_tq_dequeue_internal_race ==
    /\ Dequeue
    /\ flag_func' = IF last'.call_callback THEN low_water_callback ELSE flag_func
    /\ flag_arg' = IF last'.call_callback THEN low_water_callback_arg ELSE flag_arg
    /\ UNCHANGED not_race

cw_tq_dequeue_internal_callback_race ==
    /\ DequeueCallback
    /\ UNCHANGED <<race, not_race>>

cw_tq_register_low_level_callback_internal_race(callback_func, callback_arg, level) ==
    /\ RegisterLowLevelCallback(callback_func, callback_arg, level)
    /\ UNCHANGED <<race, not_race>>

cw_tq_reset_internal_race ==
    /\ Reset
    /\ UNCHANGED <<race, not_race>>

\* The callbacks that the client registers, each with its argument; the
\* last is no callback.
RaceCallbacks ==
    {<<"callback_func", "callback_arg">>, <<"other_func", "other_arg">>,
     <<NULL, NULL>>}

\* Tones offered in SpecRace.
RaceTones == {Tone(CW_FREQUENCY_MAX, 1, FALSE, FALSE)}

InitRace == cw_tq_new_internal /\ key_registered

NextRace ==
    \/ \E tone \in RaceTones : cw_tq_enqueue_internal_race(tone)
    \/ cw_tq_dequeue_internal_race
    \/ cw_tq_dequeue_internal_callback_race
    \/ \E cb \in RaceCallbacks, level \in 0..(capacity - 1) :
           cw_tq_register_low_level_callback_internal_race(cb[1], cb[2], level)
    \/ cw_tq_reset_internal_race

SpecRace == InitRace /\ [][NextRace]_vars

(* ------------------------------- claims -------------------------------- *)

\* What a claim calls a dequeue that returns DEQUEUED, etc.: the step ends
\* with the outcome of the named call.
Returned(op, rv) == last'.op = op /\ last'.rv = rv

\* C1: in every reachable state 0 <= len <= capacity, head and tail are in
\* [0, capacity), and state = IDLE implies len = 0.
C1_QueueInvariant ==
    /\ 0 <= len /\ len <= capacity
    /\ head \in 0..(capacity - 1)
    /\ tail \in 0..(capacity - 1)
    /\ state = CW_TQ_IDLE => len = 0

\* C1 witness: a full queue whose indexes have wrapped around.
C1_Witness ==
    /\ len = capacity
    /\ capacity > 1
    /\ head = capacity - 1
    /\ tail = head
    /\ last.op = "enqueue"

\* C2: FIFO.  Every tone dequeue returns is a tone that was stored, tones
\* come back in the order they were stored, none is skipped as long as no
\* flush or handle_backspace has run, a tone is returned again only if it
\* is a forever tone that the previous return left in the queue, and
\* dequeue reports an empty queue only after it has returned every tone.
C2_Fifo ==
    [][ last'.op = "dequeue" =>
          IF last'.rv = CW_TQ_DEQUEUED
          THEN LET tone == last'.tone
               IN  /\ tone.len \in 1..Len(enq_hist)
                   /\ enq_hist[tone.len] = tone
                   /\ tone.len >= last_ord
                   /\ ~disturbed => tone.len \in {last_ord, last_ord + 1}
                   /\ tone.len = last_ord => (tone.is_forever /\ ~ret_removed)
          ELSE ~disturbed => last_ord = Len(enq_hist)
      ]_vars

\* C2 witness: a forever tone was returned more than once, then its
\* successor and the tone after that, with the ring wrapped.
C2_Witness ==
    /\ last.op = "dequeue"
    /\ last.rv = CW_TQ_DEQUEUED
    /\ ~disturbed
    /\ last_ord = 3
    /\ enq_hist[1].is_forever
    /\ capacity = 2

\* C3: as long as nothing has been removed, the i-th successful enqueue of
\* a non-empty tone makes the length i; a valid non-empty tone is accepted
\* while len < capacity; once len = capacity the queue is full and enqueue
\* fails with EAGAIN and changes nothing.
C3_FillToCapacity ==
    /\ [](last_ord = 0 /\ ~disturbed => cw_tq_length_internal = Len(enq_hist))
    /\ [][ \A tone \in FifoTones :
             cw_tq_enqueue_internal_fifo(Tagged(tone, Len(enq_hist) + 1)) =>
                IF len < capacity
                THEN /\ last'.rv = CW_SUCCESS
                     /\ len' = len + 1
                ELSE /\ len = capacity
                     /\ last'.rv = CW_FAILURE
                     /\ last'.errno = EAGAIN
                     /\ UNCHANGED <<tq_fields, enq_hist>>
         ]_vars

\* C3 witness: capacity tones went in one after the other and the next
\* enqueue has failed with EAGAIN.
C3_Witness ==
    /\ last.op = "enqueue"
    /\ last.errno = EAGAIN
    /\ last_ord = 0
    /\ ~disturbed
    /\ Len(enq_hist) = capacity
    /\ cw_tq_is_full_internal
    /\ capacity = MaxCapacity

\* C4: enqueue of a tone with frequency < 0, frequency > 4000 or len < 0
\* fails with EINVAL, changes no field of the queue and sends no wake-up.
C4_InvalidToneRejected ==
    [][ last'.op = "enqueue" => \A tone \in Tones :
          (/\ \/ tone.frequency < 0
              \/ tone.frequency > 4000
              \/ tone.len < 0
           /\ cw_tq_enqueue_internal(tone))
          => /\ last'.rv = CW_FAILURE
             /\ last'.errno = EINVAL
             /\ ~last'.wake
             /\ UNCHANGED tq_fields
      ]_vars

\* C4 witness: EINVAL returned on a full queue.
C4_Witness ==
    /\ last.op = "enqueue"
    /\ last.rv = CW_FAILURE
    /\ last.errno = EINVAL
    /\ len = capacity

\* C5: enqueue of a tone with len = 0 and a valid frequency returns
\* success, changes no field of the queue and sends no wake-up.
C5_EmptyToneDropped ==
    [][ last'.op = "enqueue" => \A tone \in Tones :
          (/\ tone.len = 0
           /\ tone.frequency >= 0
           /\ tone.frequency <= 4000
           /\ cw_tq_enqueue_internal(tone))
          => /\ last'.rv = CW_SUCCESS
             /\ ~last'.wake
             /\ UNCHANGED tq_fields
      ]_vars

\* C5 witness: enqueue has returned success and the queue is still idle.
C5_Witness ==
    /\ last.op = "enqueue"
    /\ last.rv = CW_SUCCESS
    /\ state = CW_TQ_IDLE

\* C6 as stated: every enqueue that returns success strictly increases len.
C6_Original ==
    [][ Returned("enqueue", CW_SUCCESS) => len' > len ]_vars

\* C6 amended: every enqueue of a tone with len # 0 that returns success
\* increases the length of the queue by one; a successful enqueue of a tone
\* with len = 0 leaves it as it is.
C6_SuccessfulEnqueueGrows ==
    [][ last'.op = "enqueue" => \A tone \in Tones :
          (cw_tq_enqueue_internal(tone) /\ last'.rv = CW_SUCCESS)
          => len' = IF tone.len # 0 THEN len + 1 ELSE len
      ]_vars

\* C6 witness: a tone was stored in a queue that already held one.
C6_Witness ==
    /\ last.op = "enqueue"
    /\ last.rv = CW_SUCCESS
    /\ ~last.wake
    /\ len = 2

\* C7: a dequeue that returns DEQUEUED, unless the tone is a forever tone
\* and the only tone in the queue, decreases len by one, advances head by
\* one modulo capacity and leaves tail unchanged.
C7_DequeueRemoves ==
    [][ (Returned("dequeue", CW_TQ_DEQUEUED) /\ ~(last'.tone.is_forever /\ len = 1))
        => /\ len' = len - 1
           /\ head' = (head + 1) % capacity
           /\ tail' = tail
      ]_vars

\* C7 witness: a forever tone has been removed because another tone was
\* queued behind it.
C7_Witness ==
    /\ last.op = "dequeue"
    /\ last.rv = CW_TQ_DEQUEUED
    /\ last.tone.is_forever
    /\ len = 1
    /\ ~queue[head].is_forever

\* C8: while a forever tone is the only tone in the queue, every dequeue
\* returns DEQUEUED with that tone and leaves head, tail, len = 1, state =
\* BUSY and the stored tones unchanged.
C8_ForeverToneHeld ==
    [][ (last'.op = "dequeue" /\ len = 1 /\ queue[head].is_forever)
        => /\ last'.rv = CW_TQ_DEQUEUED
           /\ last'.tone = queue[head]
           /\ state = CW_TQ_BUSY
           /\ UNCHANGED ring
      ]_vars

\* C8 witness: the same forever tone has been returned MaxRepeats times
\* and is still in the queue.
C8_Witness ==
    /\ last.op = "dequeue"
    /\ last.rv = CW_TQ_DEQUEUED
    /\ last.tone.is_forever
    /\ ret_count = MaxRepeats
    /\ ~ret_removed
    /\ len = 1

\* C9: with a second tone behind a forever tone that has been returned, the
\* next dequeue returns the forever tone once more and removes it; the
\* dequeue after a removal returns a later tone, never the removed one, and
\* it is the tone stored next unless flush or handle_backspace has run.
C9_ForeverToneSuperseded ==
    [][ last'.op = "dequeue" =>
          /\ (len >= 2 /\ queue[head].is_forever /\ last_ord = queue[head].len)
             => /\ last'.rv = CW_TQ_DEQUEUED
                /\ last'.tone = queue[head]
                /\ len' = len - 1
                /\ head' = (head + 1) % capacity
                /\ queue'[head'] = queue[(head + 1) % capacity]
          /\ (last'.rv = CW_TQ_DEQUEUED /\ ret_removed)
             => /\ last'.tone.len > last_ord
                /\ ~disturbed => last'.tone = enq_hist[last_ord + 1]
      ]_vars

\* C9 witness: a forever tone was returned while alone, then a second tone
\* was stored behind it, and a dequeue has returned the forever tone again
\* and removed it, leaving the second tone.
C9_Witness ==
    /\ last.op = "dequeue"
    /\ last.rv = CW_TQ_DEQUEUED
    /\ last.tone.is_forever
    /\ ret_count >= 2
    /\ ret_removed
    /\ ~disturbed
    /\ len = 1
    /\ queue[head] = enq_hist[last_ord + 1]

\* C10: a dequeue on a busy queue with len = 0 returns EMPTY and makes the
\* state IDLE; a dequeue on an idle queue returns IDLE and changes nothing;
\* the state stays IDLE until an enqueue succeeds; len is 0 all the while.
C10_EmptyThenIdle ==
    /\ [](state = CW_TQ_IDLE => len = 0)
    /\ [][ last'.op = "dequeue" =>
             /\ (state = CW_TQ_BUSY /\ len = 0)
                => /\ last'.rv = CW_TQ_NDEQUEUED_EMPTY
                   /\ state' = CW_TQ_IDLE
                   /\ len' = 0
             /\ state = CW_TQ_IDLE
                => /\ last'.rv = CW_TQ_NDEQUEUED_IDLE
                   /\ UNCHANGED <<tq_fields, tk_value, cpc>>
             /\ last'.rv = CW_TQ_NDEQUEUED_EMPTY
                => (state = CW_TQ_BUSY /\ len = 0)
         ]_vars
    /\ [][ (state = CW_TQ_IDLE /\ state' # CW_TQ_IDLE)
           => Returned("enqueue", CW_SUCCESS)
         ]_vars

\* C10 witness: the last tone was returned and removed, the dequeue after
\* it returned EMPTY, and the one after that IDLE.
C10_Witness ==
    /\ last.op = "dequeue"
    /\ last.rv = CW_TQ_NDEQUEUED_IDLE
    /\ ~disturbed
    /\ last_ord = 1
    /\ ret_removed
    /\ state = CW_TQ_IDLE

\* C11: a dequeue flags the low water callback exactly when it has removed
\* a tone, a callback is registered, the length before the removal was
\* above low_water_mark and the length after it is at or below it; a
\* dequeue that returns IDLE or EMPTY or a held forever tone, or finds no
\* callback or no crossing, flags nothing.
C11_CallbackFlagged ==
    [][ last'.op = "dequeue" =>
          /\ last'.call_callback <=>
                 /\ last'.rv = CW_TQ_DEQUEUED
                 /\ len' = len - 1
                 /\ low_water_callback # NULL
                 /\ len > low_water_mark
                 /\ len' <= low_water_mark
          /\ (cpc' = "callback") <=> last'.call_callback
      ]_vars

\* C11 witness: a dequeue has taken the length from 2 to a low water mark
\* of 1 and flagged the callback.
C11_Witness ==
    /\ last.op = "dequeue"
    /\ last.call_callback
    /\ cpc = "callback"
    /\ low_water_mark = 1
    /\ len = 1

\* C15: a dequeue that finds a forever tone as the only tone returns it,
\* leaves it in the queue, does not flag the low water callback and is not
\* followed by a call of it, whatever low_water_mark is.
C15_HeldForeverToneNoCallback ==
    [][ (last'.op = "dequeue" /\ state = CW_TQ_BUSY /\ len = 1
                             /\ queue[head].is_forever)
        => /\ last'.rv = CW_TQ_DEQUEUED
           /\ last'.tone = queue[head]
           /\ len' = 1
           /\ ~last'.call_callback
           /\ cpc' = "ready"
      ]_vars

\* C15 witness: a forever tone has been returned and is held while a
\* callback is registered with a low water mark of 1.
C15_Witness ==
    /\ last.op = "dequeue"
    /\ last.rv = CW_TQ_DEQUEUED
    /\ last.tone.is_forever
    /\ len = 1
    /\ queue[head] = last.tone
    /\ low_water_callback # NULL
    /\ low_water_mark >= 1

\* C17: flush sets len = 0, head = tail and state = IDLE in one step, does
\* not flag or call the low water callback, and leaves tail, capacity,
\* high_water_mark, low_water_mark, the callback and its argument as they
\* were.
C17_Flush ==
    [][ last'.op = "flush" =>
          /\ len' = 0
          /\ head' = tail
          /\ tail' = tail
          /\ state' = CW_TQ_IDLE
          /\ ~last'.call_callback
          /\ cpc' = cpc
          /\ UNCHANGED <<capacity, high_water_mark, low_water_mark,
                         low_water_callback, low_water_callback_arg>>
      ]_vars

\* C17 witness: flush has made a busy queue idle (the key is still closed
\* from the last tone returned) with head and tail away from slot 0 and a
\* callback registered at a low water mark of 1.
C17_Witness ==
    /\ last.op = "flush"
    /\ len = 0
    /\ state = CW_TQ_IDLE
    /\ head = tail
    /\ head = 1
    /\ key_registered
    /\ tk_value = CW_KEY_STATE_CLOSED
    /\ low_water_callback # NULL
    /\ low_water_mark = 1

\* C12: with a callback registered at level lw, a drain (dequeue calls
\* only) of a queue that held N tones calls the callback at most once; the
\* call comes from the dequeue that took len from lw + 1 to lw, and len is
\* lw when it is flagged; once len is at or below lw and dequeue has
\* returned, the callback has been called once if N > lw; if N <= lw it is
\* not called at all.
C12_DrainCallsOnce ==
    low_water_callback # NULL =>
        /\ drain_calls <= 1
        /\ drain_calls = 1 => (drain_len > low_water_mark
                               /\ drain_flag_len = low_water_mark)
        /\ (cpc = "callback" /\ ~drain_stale)
              => (drain_flag_len = low_water_mark /\ len = low_water_mark)
        /\ drain_len <= low_water_mark
              => (drain_calls = 0 /\ drain_flag_len = -1)
        /\ (drain_len > low_water_mark /\ len <= low_water_mark /\ cpc = "ready")
              => drain_calls = 1

\* C12 witness: two tones were queued with the callback at level 1, the
\* queue has been drained until dequeue reported it empty, and the
\* callback has been called once.
C12_Witness ==
    /\ low_water_callback # NULL
    /\ low_water_mark = 1
    /\ drain_len = 2
    /\ drain_calls = 1
    /\ last.op = "dequeue"
    /\ last.rv = CW_TQ_NDEQUEUED_EMPTY
    /\ len = 0

\* C13 as stated: every step of enqueue, dequeue or handle_backspace that
\* takes len from above low_water_mark to at or below it, with a callback
\* registered, is followed by a call of the callback.
C13_Original ==
    [][ (/\ low_water_callback # NULL
         /\ last'.op \in {"enqueue", "dequeue", "backspace"}
         /\ len > low_water_mark
         /\ len' <= low_water_mark)
        => cpc' = "callback"
      ]_vars

\* C13 amended: the callback is called exactly once for each dequeue that
\* takes len from above low_water_mark to at or below it: the number of
\* such dequeues less the number of calls is 1 while the call is pending
\* and 0 whenever dequeue has returned; enqueue and handle_backspace flag
\* no call, also when handle_backspace takes len across the mark.
C13_CalledOncePerDequeueCrossing ==
    /\ [](/\ cb_owed \in {0, 1}
          /\ cpc = "ready" => cb_owed = 0
          /\ cpc = "callback" => cb_owed = 1)
    /\ [][ last'.op \in {"enqueue", "backspace"} => cpc' = cpc ]_vars

\* C13 witness: a dequeue took len across the mark, a tone was enqueued
\* before the callback ran, and the callback has been called once.
C13_Witness ==
    /\ last.op = "callback"
    /\ last.func = "callback_func"
    /\ cb_owed = 0
    /\ cpc = "ready"
    /\ len > low_water_mark

\* C14 as stated: after a flush the callback is not called before a
\* dequeue has again taken len from above low_water_mark to at or below
\* it.
C14_Original ==
    [][ last'.op = "callback" => flush_phase = "none" ]_vars

\* C16: a dequeue that flags the callback goes on to call it, with the
\* mutex released; the call can always proceed although the callback takes
\* the mutex itself; it is the consumer's next step, so no dequeue comes
\* before it.
C16_CallbackAfterUnlock ==
    /\ [](cpc = "callback" =>
             /\ mutex = "unlocked"
             /\ ENABLED cw_tq_dequeue_internal_callback_lw)
    /\ [][ (last'.op = "dequeue" /\ last'.call_callback) => cpc' = "callback" ]_vars
    /\ [][ (cpc = "callback" /\ cpc' # cpc)
           => /\ last'.op = "callback"
              /\ last'.func = low_water_callback
              /\ last'.func # NULL
              /\ cpc' = "ready"
         ]_vars
    /\ [][ last'.op = "dequeue" => cpc = "ready" ]_vars

\* C16 witness: the callback has been called and has returned.
C16_Witness ==
    /\ last.op = "callback"
    /\ last.func = "callback_func"
    /\ last.call_callback
    /\ cpc = "ready"
    /\ mutex = "unlocked"

\* C18: handle_backspace, when one of the len tones in the queue has
\* is_first set, leaves exactly the tones before the last such tone, in
\* their order, with tail at that tone's slot and len smaller by the
\* number of tones removed; when none has, head, tail and len stay.  Only
\* the len slots from head on count: a slot outside them with is_first set
\* changes nothing.
C18_Backspace ==
    [][ last'.op = "backspace" =>
          LET live == Live
              firsts == {i \in 1..len : live[i].is_first}
          IN  IF firsts # {}
              THEN LET k == CHOOSE i \in firsts : \A j \in firsts : j <= i
                   IN  /\ Live' = SubSeq(live, 1, k - 1)
                       /\ tail' = (head + k - 1) % capacity
                       /\ len' = len - (len - k + 1)
                       /\ head' = head
              ELSE /\ UNCHANGED <<head, tail, len>>
                   /\ Live' = live
      ]_vars

\* C18 witness: the queue held a plain tone and then the first tone of a
\* character; handle_backspace has removed the second and kept the first.
C18_Witness ==
    /\ last.op = "backspace"
    /\ bs_n = 1
    /\ Len(bs_start) = 2
    /\ ~bs_start[1].is_first
    /\ bs_start[2].is_first
    /\ Live = <<bs_start[1]>>
    /\ queue[tail] = bs_start[2]

\* C19: when the queue holds k characters (it is empty or its oldest tone
\* has is_first), n successive handle_backspace calls with no other call
\* in between leave exactly the first k - n characters for n < k and an
\* empty queue for n >= k; on an empty queue the call changes nothing.
C19_BackspaceRun ==
    /\ [](/\ last.op = "backspace"
          /\ bs_n >= 1
          /\ bs_start # <<>> => bs_start[1].is_first
          => LET firsts == {i \in 1..Len(bs_start) : bs_start[i].is_first}
                 k == Cardinality(firsts)
             IN  IF bs_n >= k
                 THEN len = 0
                 ELSE LET p == CHOOSE i \in firsts :
                                   Cardinality({j \in firsts : j < i}) = k - bs_n
                      IN  Live = SubSeq(bs_start, 1, p - 1))
    /\ [][ (last'.op = "backspace" /\ len = 0) => UNCHANGED tq_fields ]_vars

\* C19 witness: two characters were queued and two handle_backspace calls
\* have emptied the queue.
C19_Witness ==
    /\ last.op = "backspace"
    /\ bs_n = 2
    /\ Len(bs_start) = 2
    /\ bs_start[1].is_first
    /\ bs_start[2].is_first
    /\ len = 0

\* C20 as stated: handle_backspace leaves the queue as it is, or removes
\* the last is_first tone in the queue and every tone after it, and then
\* that is_first tone is one that dequeue has not yet returned.
C20_Original ==
    [][ last'.op = "backspace" =>
          LET live == Live
          IN  \/ UNCHANGED <<head, tail, len, queue>>
              \/ \E k \in 1..len :
                    /\ live[k].is_first
                    /\ \A i \in (k + 1)..len : ~live[i].is_first
                    /\ len' = k - 1
                    /\ head' = head
                    /\ Live' = SubSeq(live, 1, k - 1)
                    /\ live[k].len > last_ord
      ]_vars

\* C20 amended: handle_backspace leaves the queue as it is, or removes the
\* last is_first tone in the queue and every tone after it; the tones of a
\* character whose is_first tone dequeue has removed stay; an is_first tone
\* that dequeue has returned is removed only if it is a forever tone that
\* dequeue has left at the head of the queue.
C20_BackspaceWholeCharacter ==
    [][ last'.op = "backspace" =>
          LET live == Live
          IN  \/ UNCHANGED <<head, tail, len, queue>>
              \/ \E k \in 1..len :
                    /\ live[k].is_first
                    /\ \A i \in (k + 1)..len : ~live[i].is_first
                    /\ len' = k - 1
                    /\ head' = head
                    /\ Live' = SubSeq(live, 1, k - 1)
                    /\ \/ live[k].len > last_ord
                       \/ /\ live[k].len = last_ord
                          /\ live[k].is_forever
                          /\ ~ret_removed
                          /\ k = 1
      ]_vars

\* C20 witness: dequeue has returned and removed the first tone of a
\* character, the next tone of the character is alone in the queue, and
\* handle_backspace has left it there.
C20_Witness ==
    /\ last.op = "backspace"
    /\ bs_n = 1
    /\ last_ord >= 1
    /\ ret_removed
    /\ Len(enq_hist) > last_ord
    /\ enq_hist[last_ord].is_first
    /\ ~enq_hist[last_ord + 1].is_first
    /\ bs_start = <<enq_hist[last_ord + 1]>>
    /\ Live = bs_start

(* ---------------------------- claims C21-C30 --------------------------- *)

\* C21 (as stated): a dequeue that returns CW_TQ_DEQUEUED on a full queue
\* leaves the queue not full, whatever the capacity and the tone.
C21_Original ==
    [][ (Returned("dequeue", CW_TQ_DEQUEUED) /\ cw_tq_is_full_internal)
          => ~cw_tq_is_full_internal' ]_vars

\* C22: register_low_level_callback with level < 0 or level >= capacity
\* fails with EINVAL and changes none of low_water_mark, low_water_callback
\* and low_water_callback_arg; with any other level it stores the three and
\* succeeds.  A dequeue that begins while the registered function is NULL
\* flags no callback and goes on to no call of one.
C22_Register ==
    [][ /\ last'.op = "register" =>
              \A level \in (-1)..capacity :
              \A fa \in {<<"callback_func", "callback_arg">>, <<NULL, NULL>>} :
                 cw_tq_register_low_level_callback_internal(fa[1], fa[2], level)
                 => IF level < 0 \/ level >= capacity
                    THEN /\ last'.rv = CW_FAILURE
                         /\ last'.errno = EINVAL
                         /\ UNCHANGED <<low_water_mark, low_water_callback,
                                        low_water_callback_arg>>
                    ELSE /\ last'.rv = CW_SUCCESS
                         /\ low_water_mark' = level
                         /\ low_water_callback' = fa[1]
                         /\ low_water_callback_arg' = fa[2]
        /\ (last'.op = "dequeue" /\ low_water_callback = NULL) =>
              /\ ~last'.call_callback
              /\ cpc' = "ready"
      ]_vars

\* C22 witness: a registration with level = capacity has failed and the
\* registration made before it, with level 1, is still in place.
C22_Witness ==
    /\ last.op = "register"
    /\ last.rv = CW_FAILURE
    /\ last.errno = EINVAL
    /\ low_water_mark = 1
    /\ low_water_callback = "callback_func"
    /\ low_water_callback_arg = "callback_arg"

\* C30: an enqueue that stores a tone sends SIGALRM to the generator thread
\* exactly when the state was CW_TQ_IDLE, and the state is CW_TQ_BUSY after
\* the same step; an enqueue that stores a tone while the state is
\* CW_TQ_BUSY sends nothing and leaves the state CW_TQ_BUSY.
C30_EnqueueWakesIdle ==
    [][ (Returned("enqueue", CW_SUCCESS) /\ len' # len) =>
          /\ last'.wake <=> (state = CW_TQ_IDLE)
          /\ state' = CW_TQ_BUSY
      ]_vars

\* C30 witness: a second tone has been stored while the first was still
\* queued, and no SIGALRM was sent for it.
C30_Witness ==
    /\ last.op = "enqueue"
    /\ last.rv = CW_SUCCESS
    /\ ~last.wake
    /\ len = 2
    /\ tail = 0
    /\ head = 0
    /\ state = CW_TQ_BUSY

\* C29: with a key registered, a dequeue that returns CW_TQ_DEQUEUED sets
\* the TK value to CLOSED when the frequency of the returned tone is not
\* zero and to OPEN when it is zero, a dequeue that returns
\* CW_TQ_NDEQUEUED_EMPTY sets it to OPEN, and a dequeue that returns
\* CW_TQ_NDEQUEUED_IDLE leaves it as it is; the value changes in no other
\* step, so the updates are made in the order of the dequeues.
C29_TkFollowsDequeue ==
    [][ /\ (last'.op = "dequeue" /\ key_registered) =>
              /\ last'.rv = CW_TQ_DEQUEUED =>
                    tk_value' = IF last'.tone.frequency # 0
                                THEN CW_KEY_STATE_CLOSED
                                ELSE CW_KEY_STATE_OPEN
              /\ last'.rv = CW_TQ_NDEQUEUED_EMPTY => tk_value' = CW_KEY_STATE_OPEN
              /\ last'.rv = CW_TQ_NDEQUEUED_IDLE => tk_value' = tk_value
        /\ tk_value' # tk_value => last'.op = "dequeue"
      ]_vars

\* C29 witness: a key is registered, the second tone of a queue of capacity
\* 2 has been dequeued, it is a mark, and the TK value is CLOSED.
C29_Witness ==
    /\ key_registered
    /\ last.op = "dequeue"
    /\ last.rv = CW_TQ_DEQUEUED
    /\ last.tone.frequency = CW_FREQUENCY_MAX
    /\ tk_value = CW_KEY_STATE_CLOSED
    /\ head = 0
    /\ tail = 0
    /\ capacity = 2

\* C23: wait_for_level(level) returns success only in a step in which it
\* has read len <= level; when len <= level holds at the call and SIGALRM is
\* not blocked it returns in the step of the call, without waiting; and as
\* long as no tone has been stored since that read, len is at most level.
C23_WaitForLevel ==
    [][ /\ \A level \in 0..(capacity - 1) :
              cw_tq_wait_for_level_internal(level) =>
                 /\ (last'.rv = CW_SUCCESS /\ wpc' = "idle") => len <= level
                 /\ (len <= level /\ ~sigalrm_blocked) =>
                       /\ wpc' = "idle"
                       /\ last' = Plain("wait_for_level", CW_SUCCESS, ENONE)
                       /\ w_bound' = level
        /\ cw_tq_wait_for_level_internal_loop =>
              /\ len <= w_level
              /\ last' = Plain("wait_for_level", CW_SUCCESS, ENONE)
              /\ w_bound' = w_level
        /\ len' <= w_bound'
      ]_vars

\* C23 witness: wait_for_level(1) has returned success while one of the two
\* tones of the queue was still there, and no tone has been stored since.
C23_Witness ==
    /\ last = Plain("wait_for_level", CW_SUCCESS, ENONE)
    /\ wpc = "idle"
    /\ w_bound = 1
    /\ w_before = 1
    /\ len = 1
    /\ head = 1
    /\ capacity = 2

\* C24: when the caller has blocked SIGALRM, wait_for_tone,
\* wait_for_tone_queue and wait_for_level fail with EDEADLK in the step of
\* the call, without waiting and without changing a field of the queue;
\* flush empties the queue and returns without waiting.
C24_BlockedSignal ==
    [][ sigalrm_blocked =>
          /\ ( \/ cw_tq_wait_for_tone_internal
               \/ cw_tq_wait_for_tone_queue_internal
               \/ \E level \in 0..(capacity - 1) :
                     cw_tq_wait_for_level_internal(level) ) =>
                /\ last'.rv = CW_FAILURE
                /\ last'.errno = EDEADLK
                /\ wpc' = "idle"
                /\ UNCHANGED tq_fields
          /\ cw_tq_flush_internal_wait =>
                /\ len' = 0
                /\ head' = tail
                /\ tail' = tail
                /\ state' = CW_TQ_IDLE
                /\ wpc' = "idle"
          /\ wpc = "idle"
      ]_vars

\* C24 witness: with SIGALRM blocked, wait_for_tone was called on a busy
\* queue with a tone in it and has failed with EDEADLK.
C24_Witness ==
    /\ sigalrm_blocked
    /\ last = Plain("wait_for_tone", CW_FAILURE, EDEADLK)
    /\ wpc = "idle"
    /\ len = 1
    /\ state = CW_TQ_BUSY

\* C25: wait_for_tone returns success only in a step in which head differs
\* from the value it had at the call or the state is CW_TQ_IDLE; and when no
\* tone has been stored since the client read the length before the call,
\* len at the return is smaller than that length or is zero.  len grows only
\* in a step that stores a tone, so the same holds of any later read.
C25_WaitForTone ==
    [][ /\ ( \/ cw_tq_wait_for_tone_internal_loop
             \/ /\ cw_tq_wait_for_tone_internal
                /\ wpc' = "idle"
                /\ last'.rv = CW_SUCCESS ) =>
              /\ last' = Plain("wait_for_tone", CW_SUCCESS, ENONE)
              /\ \/ state = CW_TQ_IDLE
                 \/ wpc = "wait_for_tone" /\ head # w_head
              /\ w_before <= capacity => (len < w_before \/ len = 0)
        /\ len' > len => (last'.op = "enqueue" /\ w_before' > capacity)
      ]_vars

\* C25 witness: the client read a length of 2 and called wait_for_tone;
\* dequeue removed a tone, head changed, and wait_for_tone has returned with
\* one tone in the queue.
C25_Witness ==
    /\ last = Plain("wait_for_tone", CW_SUCCESS, ENONE)
    /\ wpc = "idle"
    /\ w_before = 2
    /\ len = 1
    /\ head = 1
    /\ state = CW_TQ_BUSY

\* C27 (as stated): every operation reads and writes the fields of the
\* queue while it holds the mutex.
C27_Original == unlocked_access = "none"

\* C28: with two producer threads, the consumer and threads that flush and
\* handle a backspace, the tones in the queue are at every moment the
\* tones of the enqueues that returned success and have not been removed,
\* each in one slot and in the order of the enqueues, and len is the number
\* of successful enqueues of a tone minus the number of tones removed by
\* dequeue, flush and handle_backspace.
C28_ProducersKeepCount ==
    /\ len = n_stored - n_removed
    /\ Live = expect
    /\ \A i, j \in 1..len : i # j => Live[i].len # Live[j].len

\* C28 witness: one producer thread has copied its tone to a slot and holds
\* the mutex, after two enqueues returned success and dequeue removed one
\* of the two tones.
C28_Witness ==
    /\ ppc["producer_2"] = "copied"
    /\ mutex = "locked"
    /\ n_stored = 2
    /\ n_removed = 1
    /\ len = 1
    /\ last.op = "dequeue"

\* C26: with the generator thread dequeuing again and again and no forever
\* tone enqueued, every tone that was stored is later returned by dequeue;
\* once the producers have stopped the state becomes CW_TQ_IDLE and stays
\* so; and a client waiting in wait_for_tone_queue or wait_for_level(0)
\* later returns, with len = 0.
C26_QueueDrains ==
    /\ \A n \in 1..MaxEnqueued :
          (Len(enq_hist) = n) ~> (last_ord = n)
    /\ <>[](state = CW_TQ_IDLE /\ len = 0)
    /\ (wpc = "wait_for_tone_queue") ~>
          (last = Plain("wait_for_tone_queue", CW_SUCCESS, ENONE) /\ wpc = "idle"
           /\ len = 0)
    /\ (wpc = "wait_for_level") ~>
          (last = Plain("wait_for_level", CW_SUCCESS, ENONE) /\ wpc = "idle"
           /\ len = 0)

\* C26 witness: MaxEnqueued tones were stored, dequeue has returned the last
\* of them and then found the queue empty and idle, the generator thread
\* sleeps, and the client that waited in wait_for_tone_queue has returned.
C26_Witness ==
    /\ Len(enq_hist) = MaxEnqueued
    /\ last_ord = MaxEnqueued
    /\ gen_asleep
    /\ state = CW_TQ_IDLE
    /\ last = Plain("wait_for_tone_queue", CW_SUCCESS, ENONE)
    /\ unlocked_access = "wait_for_tone_queue"
    /\ w_before = capacity + 1

(* ------------------------- claims C31 to C39 --------------------------- *)

\* The slots that hold the queued tones.
QueuedSlots == {(head + i) % capacity : i \in 0..(len - 1)}

\* C31 as stated: when a tone with len = 0 and is_first set has been
\* dropped by enqueue, the next tone that is stored has is_first set.
C31_Original ==
    [][\A tone \in CallTones :
           (cw_tq_enqueue_internal_calls(tone) /\ len' = len + 1 /\ dropped_first)
               => queue'[tail].is_first]_vars

C34_RingStartIrrelevant ==
    /\ phase \in {"shifted", "to_reference"}
           => tail = (head_shift + n_put + capacity - n_cut) % capacity
    /\ phase = "to_shifted"
           => /\ last = other.last
              /\ len = other.len
              /\ state = other.state
              /\ tk_value = other.tk_value
              /\ other.head = (head + head_shift) % capacity
              /\ other.tail = (tail + head_shift) % capacity
              /\ \A i \in QueuedSlots :
                     other.queue[(i + head_shift) % capacity] = queue[i]

\* Both queues have two slots and one starts at slot 1; after a tone was
\* stored in each slot and one was removed, a second dequeue has returned
\* the tone stored second from slot 0 of the one and slot 1 of the other.
C34_Witness ==
    /\ phase = "to_shifted"
    /\ capacity = 2
    /\ head_shift = 1
    /\ last.op = "dequeue"
    /\ last.rv = CW_TQ_DEQUEUED
    /\ last.tone = Tone(CW_FREQUENCY_MIN, 1, FALSE, FALSE)
    /\ head = 0
    /\ other.head = 1
    /\ n_put = 0
    /\ len = 1

\* C35: in every reachable state tail = (head + len) mod capacity; so an
\* empty queue has head = tail, which is what cw_tq_dequeue_sub_internal()
\* asserts when it has removed the last tone.
C35_TailFollowsHead ==
    /\ tail = (head + len) % capacity
    /\ len = 0 => head = tail

\* A dequeue has just removed the last tone of a queue of two slots, away
\* from slot 0: the assertion was evaluated with head = tail = 1.
C35_Witness ==
    /\ last.op = "dequeue"
    /\ last.rv = CW_TQ_DEQUEUED
    /\ len = 0
    /\ capacity = 2
    /\ head = 1
    /\ tail = 1
    /\ state = CW_TQ_BUSY

\* C36 as stated: with a key registered, when a dequeue has returned
\* CW_TQ_NDEQUEUED_IDLE the value of the tone queue key is
\* CW_KEY_STATE_OPEN.
C36_Original ==
    (key_registered /\ last = Plain("dequeue", CW_TQ_NDEQUEUED_IDLE, ENONE))
        => tk_value = CW_KEY_STATE_OPEN

\* C39 as stated: when a forever tone is the only tone in the queue, an
\* enqueue of a valid tone with len > 0 succeeds and stores the tone, for
\* every capacity; and the dequeue that follows removes the forever tone.
C39_Original ==
    [][/\ \A tone \in ValidTones :
              (/\ cw_tq_enqueue_internal(tone)
               /\ len = 1
               /\ queue[head].is_forever)
                  => /\ last'.rv = CW_SUCCESS
                     /\ len' = 2
       /\ (/\ cw_tq_dequeue_internal
           /\ len = 2
           /\ queue[head].is_forever)
              => /\ last'.tone = queue[head]
                 /\ len' = 1
                 /\ head' = cw_tq_next_index_internal(head)]_vars

\* A forever tone is the only tone of a busy queue.
HeldForever ==
    /\ state = CW_TQ_BUSY
    /\ len = 1
    /\ queue[head].is_forever

\* The client thread is inside cw_tq_wait_for_level_internal(tq, 0),
\* cw_tq_wait_for_tone_queue_internal(), or a cw_tq_wait_for_tone_internal()
\* that read the present head.
WaitsForHeldTone ==
    \/ wpc = "wait_for_level" /\ w_level = 0
    \/ wpc = "wait_for_tone_queue"
    \/ wpc = "wait_for_tone" /\ w_head = head

\* C37: while a forever tone is the only tone, a dequeue returns it and
\* leaves len = 1 and state = CW_TQ_BUSY; and a client thread that waits in
\* wait_for_level(0), wait_for_tone_queue or wait_for_tone stays in the
\* loop, with the tone still held, in every step but an enqueue or a
\* handle_backspace of the producer.
C37_HeldToneKeepsWaiters ==
    [][/\ (HeldForever /\ cw_tq_dequeue_internal_wait)
              => /\ HeldForever'
                 /\ head' = head
                 /\ last'.rv = CW_TQ_DEQUEUED
                 /\ last'.tone = queue[head]
       /\ (HeldForever /\ WaitsForHeldTone)
              => \/ HeldForever' /\ WaitsForHeldTone' /\ wpc' = wpc
                 \/ \E tone \in WaitTones : cw_tq_enqueue_internal_wait(tone)
                 \/ cw_tq_handle_backspace_internal_wait]_vars

\* The client thread is in the loop of cw_tq_wait_for_tone_internal(), which
\* it entered while the forever tone was the only tone, and a dequeue has
\* just returned the tone again.
C37_Witness ==
    /\ HeldForever
    /\ wpc = "wait_for_tone"
    /\ w_head = head
    /\ head = 1
    /\ last.op = "dequeue"
    /\ last.rv = CW_TQ_DEQUEUED
    /\ last.tone.is_forever

\* C38 as stated: the function that dequeue calls is not NULL, and it and
\* its argument are the ones that were registered when dequeue found the
\* low water mark crossed, whatever register_low_level_callback and reset
\* have done since.
C38_Original ==
    last.op = "callback"
        => /\ last.func # NULL
           /\ last.func = flag_func
           /\ last.arg = flag_arg

====
